---- MODULE Spec2Model ----
(***************************************************************************)
(* The informer of pkg/client (Informer.watch, Informer.list,              *)
(* Informer.Run) together with the loop of KubeListener.Run that owns its  *)
(* control channels.                                                       *)
(*                                                                         *)
(* Go channels are modelled by their buffer plus the queue of goroutines   *)
(* parked on a send: a send appends to the buffer when there is room and   *)
(* parks the sender otherwise; the receiver that frees a slot moves the    *)
(* first parked sender's value into the buffer and makes it runnable.      *)
(***************************************************************************)
EXTENDS Integers, Sequences, FiniteSets, TLC

\* make(chan interface{}, 100): capacity of Informer.funnelChan
FunnelCap == 100
\* make(chan error, 10): capacity of errChan in KubeListener.Run
ErrCap == 10
\* make(chan os.Signal, 1): capacity of signalChan in KubeListener.Run
SignalCap == 1

\* frames the watch stream delivers in a run of Spec; the stream can only
\* fail or stay silent after these
MaxFrames == 3
\* list requests the API server answers with a collection in a run; it fails
\* the requests after these
MaxLists == 3
\* OS termination signals raised in a run
MaxSignals == 2
\* frames the watch stream delivers in a run of SpecBackpressure
BurstFrames == FunnelCap + 2

\* outcomes of one list round trip: the four failures of Informer.list and success
\* NewConfig: ResyncInterval: 30 * time.Minute
ResyncDefault == 30
\* the keys of resourceCreatorMap
resourceCreatorMap == {"pods", "replicationcontrollers", "services"}
\* values of --resource: the default and a kind that is no key of the map
Resources == {"services", "widgets"}
\* values of --resync-interval, in minutes
ResyncIntervals == {0, ResyncDefault}
\* capacities of the error channel handed to NewInformer
ErrCaps == {1, ErrCap}

ListFailures == {"transport", "body", "status", "decode"}
ListOutcomes == ListFailures \cup {"ok"}

----
\* NewClient.  A string is the sequence of its characters.

UpperLetters == <<"A", "B", "C", "D", "E", "F", "G", "H", "I", "J", "K", "L", "M", "N", "O", "P", "Q", "R", "S", "T", "U", "V", "W", "X", "Y", "Z">>
LowerLetters == <<"a", "b", "c", "d", "e", "f", "g", "h", "i", "j", "k", "l", "m", "n", "o", "p", "q", "r", "s", "t", "u", "v", "w", "x", "y", "z">>
SchemeExtras == {"0", "1", "2", "3", "4", "5", "6", "7", "8", "9", "+", "-", "."}

IsLetter(c) == \E i \in 1..Len(UpperLetters) : c = UpperLetters[i] \/ c = LowerLetters[i]

\* ToLower leaving every letter as it is
ToLower_Identity(str) == [i \in 1..Len(str) |-> str[i]]

\* strings.ToLower
ToLower(str) ==
    [i \in 1..Len(str) |->
        IF \E k \in 1..Len(UpperLetters) : UpperLetters[k] = str[i]
        THEN LowerLetters[CHOOSE k \in 1..Len(UpperLetters) : UpperLetters[k] = str[i]]
        ELSE str[i]]

Http == <<"h", "t", "t", "p">>
Https == <<"h", "t", "t", "p", "s">>
SchemeSep == <<":", "/", "/">>
ApiV1 == <<"/", "a", "p", "i", "/", "v", "1">>
Bearer == <<"B", "e", "a", "r", "e", "r", " ">>
SprintArg == <<"%", "s", ":", "%", "s">>

Basic == <<"B", "a", "s", "i", "c", " ">>

\* the printable ASCII characters, from code 32 (space) to code 126, the
\* double quote, the backslash and the backtick standing as words
Printable ==
    <<" ", "!", "QUOTE", "#", "$", "%", "&", "'", "(", ")", "*", "+", ",", "-", ".", "/", "0", "1",
    "2", "3", "4", "5", "6", "7", "8", "9", ":", ";", "<", "=", ">", "?", "@", "A", "B", "C", "D",
    "E", "F", "G", "H", "I", "J", "K", "L", "M", "N", "O", "P", "Q", "R", "S", "T", "U", "V", "W",
    "X", "Y", "Z", "[", "BACKSLASH", "]", "^", "_", "BACKTICK", "a", "b", "c", "d", "e", "f", "g", "h", "i", "j",
    "k", "l", "m", "n", "o", "p", "q", "r", "s", "t", "u", "v", "w", "x", "y", "z", "{", "|", "}",
    "~">>

\* the byte of a character
Ord(c) == 31 + (CHOOSE i \in 1..Len(Printable) : Printable[i] = c)

\* the alphabet of base64.StdEncoding
EncodeStd ==
    <<"A", "B", "C", "D", "E", "F", "G", "H", "I", "J", "K", "L", "M", "N", "O", "P", "Q", "R", "S",
    "T", "U", "V", "W", "X", "Y", "Z", "a", "b", "c", "d", "e", "f", "g", "h", "i", "j", "k", "l",
    "m", "n", "o", "p", "q", "r", "s", "t", "u", "v", "w", "x", "y", "z", "0", "1", "2", "3", "4",
    "5", "6", "7", "8", "9", "+", "/">>

\* base64.StdEncoding.EncodeToString([]byte(str)): every three bytes give four
\* characters of six bits each; a last group of one or two bytes is padded
\* with "="
EncodeToString(str) ==
    LET n == Len(str)
        Byte(i) == IF i <= n THEN Ord(str[i]) ELSE 0
        Val(g) == Byte(3 * g - 2) * 65536 + Byte(3 * g - 1) * 256 + Byte(3 * g)
        Sextet(g, j) == CASE j = 1 -> Val(g) \div 262144
                          [] j = 2 -> (Val(g) \div 4096) % 64
                          [] j = 3 -> (Val(g) \div 64) % 64
                          [] j = 4 -> Val(g) % 64
        Char(g, j) == IF (j = 3 /\ 3 * g - 1 > n) \/ (j = 4 /\ 3 * g > n)
                      THEN "="
                      ELSE EncodeStd[Sextet(g, j) + 1]
    IN [k \in 1..(4 * ((n + 2) \div 3)) |-> Char((k + 3) \div 4, ((k - 1) % 4) + 1)]

\* the scheme scan of url.Parse: the letters, digits, "+", "-" and "." before
\* the first ":"; a scheme cannot start with a digit, "+", "-" or "."; a
\* leading ":" is the error "missing protocol scheme"
SchemeStops(rawurl) ==
    {i \in 1..Len(rawurl) : ~IsLetter(rawurl[i]) /\ ~(rawurl[i] \in SchemeExtras /\ i > 1)}

\* the authority of url.Parse: what follows "//" up to the next "/"
Authority(rest) ==
    IF Len(rest) >= 2 /\ rest[1] = "/" /\ rest[2] = "/"
    THEN LET after == SubSeq(rest, 3, Len(rest))
             slashes == {i \in 1..Len(after) : after[i] = "/"}
             end == IF slashes = {} THEN Len(after)
                    ELSE (CHOOSE i \in slashes : \A j \in slashes : i <= j) - 1
         IN SubSeq(after, 1, end)
    ELSE <<>>

\* the scheme as it is written in rawurl, and what follows its ":"
GetScheme(rawurl) ==
    LET stops == SchemeStops(rawurl)
        i == IF stops = {} THEN 0 ELSE CHOOSE k \in stops : \A j \in stops : k <= j
    IN IF i # 0 /\ rawurl[i] = ":"
       THEN IF i = 1
            THEN [err |-> TRUE, scheme |-> <<>>, rest |-> <<>>]
            ELSE [err |-> FALSE, scheme |-> SubSeq(rawurl, 1, i - 1),
                  rest |-> SubSeq(rawurl, i + 1, Len(rawurl))]
       ELSE [err |-> FALSE, scheme |-> <<>>, rest |-> rawurl]

\* url.Parse: the Scheme, lower-cased, and the Host
UrlParse(rawurl) ==
    LET s == GetScheme(rawurl)
    IN [err |-> s.err, Scheme |-> ToLower(s.scheme), Host |-> Authority(s.rest)]

\* return nil, fmt.Errorf(...)
ClientError(why) ==
    [kind |-> "error", err |-> why, tls |-> "nil", headers |-> <<>>, baseURL |-> <<>>]

\* return client, nil
ClientOk(tls, headers, baseURL) ==
    [kind |-> "client", err |-> "nil", tls |-> tls, headers |-> headers, baseURL |-> baseURL]

\* a nil-pointer dereference inside NewClient
ClientPanic ==
    [kind |-> "panic", err |-> "nil", tls |-> "nil", headers |-> <<>>, baseURL |-> <<>>]

\* LoadCA with the outcome of AppendCertsFromPEM not looked at
LoadCA_Unchecked(secure, CaCertificate) ==
    IF secure /\ CaCertificate # "nil" THEN "RootCAs" ELSE "nil"

\* if secure && client.config.CaCertificate != nil { ... }: client.tls, or
\* "error" when AppendCertsFromPEM returns false
LoadCA(secure, CaCertificate) ==
    IF secure /\ CaCertificate # "nil"
    THEN IF CaCertificate = "bad" THEN "error" ELSE "RootCAs"
    ELSE "nil"

\* masterURL := config.MasterURL, or "https://host:port" of the discovery
\* variables when it is empty
MasterURL(config) ==
    IF config.MasterURL = <<>>
    THEN Https \o SchemeSep \o config.envHost \o <<":">> \o config.envPort
    ELSE config.MasterURL

\* NewClient with the discovery variables read before config.MasterURL is looked at
NewClient_EnvFirst(config) ==
    IF config.envHost = <<>> THEN ClientError("empty KUBERNETES_SERVICE_HOST")
    ELSE IF config.envPort = <<>> THEN ClientError("empty KUBERNETES_SERVICE_PORT")
    ELSE ClientOk("nil", <<>>, config.envHost)

\* NewClient.  config.CaCertificate is "nil", "valid" (AppendCertsFromPEM
\* returns true) or "bad"; config.Auth.pairOk is the outcome of tls.X509KeyPair.
\* fmt.Sprint concatenates its string operands, the first one included.
NewClient(config) ==
    LET discover == config.MasterURL = <<>>
        url == UrlParse(MasterURL(config))
        scheme == ToLower(url.Scheme)
        secure == scheme = Https
        tls == LoadCA(secure, config.CaCertificate)
        baseURL == url.Host \o ApiV1
    IN IF discover /\ config.envHost = <<>>
         THEN ClientError("empty KUBERNETES_SERVICE_HOST")
       ELSE IF discover /\ config.envPort = <<>>
         THEN ClientError("empty KUBERNETES_SERVICE_PORT")
       ELSE IF url.err
         THEN ClientError("url.Parse")
       ELSE IF scheme = <<>> \/ (scheme # Http /\ scheme # Https)
         THEN ClientError("invalid url scheme")
       ELSE IF tls = "error"
         THEN ClientError("unable to load CA certificate")
       ELSE IF config.Auth.type = "ClientCertificateAuth"
         THEN IF ~secure
                THEN ClientError("client certificate requires using a secure endpoint")
              ELSE IF ~config.Auth.pairOk
                THEN ClientError("x509 client key pair could not be generated")
              ELSE IF tls = "nil"
                THEN ClientPanic
              ELSE ClientOk("RootCAs+Certificates", <<>>, baseURL)
       ELSE IF config.Auth.type = "TokenAuth"
         THEN ClientOk(tls, Bearer \o config.Auth.token, baseURL)
       ELSE IF config.Auth.type = "UsernameAndPasswordAuth"
         THEN ClientOk(tls, Basic \o EncodeToString(SprintArg \o config.Auth.user \o config.Auth.pass),
                       baseURL)
       ELSE ClientError("unknown auth type")

\* the inputs of NewClient
NoAuth == [type |-> "nil", pairOk |-> FALSE, token |-> <<>>, user |-> <<>>, pass |-> <<>>]
ClientCertificateAuth(pairOk) == [NoAuth EXCEPT !.type = "ClientCertificateAuth", !.pairOk = pairOk]
TokenAuth(token) == [NoAuth EXCEPT !.type = "TokenAuth", !.token = token]
UsernameAndPasswordAuth(user, pass) ==
    [NoAuth EXCEPT !.type = "UsernameAndPasswordAuth", !.user = user, !.pass = pass]
\* a value of some other type held by the ClientAuth interface
OtherAuth == [NoAuth EXCEPT !.type = "other"]

Auths ==
    {ClientCertificateAuth(TRUE), ClientCertificateAuth(FALSE), TokenAuth(<<"t">>),
     UsernameAndPasswordAuth(<<"u">>, <<"p">>),
     UsernameAndPasswordAuth(<<"a", "d", "m">>, <<>>), NoAuth, OtherAuth}

MasterURLs ==
    { <<>>,
      <<"h", "t", "t", "p", ":", "/", "/", "m">>,
      <<"h", "t", "t", "p", "s", ":", "/", "/", "m">>,
      <<"H", "T", "T", "P", "S", ":", "/", "/", "m">>,
      <<"H", "t", "t", "p", ":", "/", "/", "m", ":", "8", "0", "/", "x">>,
      <<"f", "t", "p", ":", "/", "/", "m">>,
      <<"m">>,
      <<":", "/", "/", "m">> }

EnvHosts == {<<>>, <<"k">>}
EnvPorts == {<<>>, <<"4", "4", "3">>}
CaCertificates == {"nil", "valid", "bad"}

ClientConfigs ==
    [MasterURL : MasterURLs, Auth : Auths, CaCertificate : CaCertificates,
     envHost : EnvHosts, envPort : EnvPorts]

\* KubeListener.Run: the service account token and ca.crt, --kube-master-url
\* left empty inside a pod
KubeListenerClientConfig ==
    [MasterURL |-> <<>>, Auth |-> TokenAuth(<<"t">>), CaCertificate |-> "valid",
     envHost |-> <<"k">>, envPort |-> <<"4", "4", "3">>]

\* NewClient has not been called
NotCalled ==
    [kind |-> "pending", err |-> "nil", tls |-> "nil", headers |-> <<>>, baseURL |-> <<>>]

\* the polling listener (kubelistener.go)

\* cli.IntFlag{Name: "sync-interval", Value: 60}
SyncDefault == 60
SyncIntervals == {0, SyncDefault}
\* the event types of package watch
EventTypes == {"ADDED", "MODIFIED", "DELETED", "ERROR"}
\* mainLoop entries with a watch, watch events and ticks looked at
MaxEntries == 2
MaxWatchEvents == 2
MaxTicks == 1
\* what resources.List returns
ResourceList == <<[name |-> "a", rv |-> 0], [name |-> "b", rv |-> 0]>>
\* the object of the n-th watch event
WatchObject(n) == [name |-> "w", rv |-> n]

\* NewEvent without its case for kwatch.Deleted
NewEvent_NoDeleted(eventType, object) ==
    [Type |-> CASE eventType = "ADDED" -> 0
                [] eventType = "MODIFIED" -> 1
                [] OTHER -> -1,
     Object |-> object]

\* NewEvent
NewEvent(eventType, object) ==
    [Type |-> CASE eventType = "ADDED" -> 0
                [] eventType = "MODIFIED" -> 1
                [] eventType = "DELETED" -> 2
                [] OTHER -> -1,
     Object |-> object]

\* the inputs of NewInformer
Namespaces == {<<>>, <<"n", "s">>}
PodNamespaces == {<<>>, <<"p", "o", "d">>}
Selectors == {<<>>, <<"a", "=", "b">>}

InformerConfigs ==
    [Namespace : Namespaces, Selector : Selectors, Processor : BOOLEAN,
     podNamespace : PodNamespaces]

\* KubeListener.Run: --namespace and --selector left empty, POD_NAMESPACE not
\* set, Processor: process
KubeListenerInformerConfig ==
    [Namespace |-> <<>>, Selector |-> <<>>, Processor |-> TRUE, podNamespace |-> <<>>]

\* the characters of a resource name
Chars(name) ==
    CASE name = "services" -> <<"s", "e", "r", "v", "i", "c", "e", "s">>
      [] name = "pods" -> <<"p", "o", "d", "s">>
      [] name = "replicationcontrollers" -> <<"r", "e", "p", "l", "i", "c", "a", "t", "i", "o", "n", "c", "o", "n", "t", "r", "o", "l", "l", "e", "r", "s">>
      [] name = "widgets" -> <<"w", "i", "d", "g", "e", "t", "s">>

DefaultNamespace == <<"d", "e", "f", "a", "u", "l", "t">>
WatchPrefix == <<"w", "a", "t", "c", "h", "/">>
NamespacesSegment == <<"n", "a", "m", "e", "s", "p", "a", "c", "e", "s", "/">>

\* Client.getResourcesURL
getResourcesURL(c, schemePrefix, namespace, name, watch) ==
    (IF c.tls # "nil" THEN schemePrefix \o <<"s">> ELSE schemePrefix)
        \o SchemeSep \o c.baseURL \o <<"/">>
        \o (IF watch THEN WatchPrefix ELSE <<>>)
        \o NamespacesSegment \o namespace \o <<"/">> \o Chars(name)

\* NewInformer has not been called
NotBuilt == [kind |-> "pending", err |-> "nil", httpURL |-> <<>>, wsURL |-> <<>>]

\* NewInformer going from an empty config.Namespace to "default" at once
NewInformer_NoPodNamespace(c, config, name) ==
    LET namespace == IF config.Namespace # <<>> THEN config.Namespace ELSE DefaultNamespace
    IN IF ~config.Processor
         THEN [NotBuilt EXCEPT !.kind = "error", !.err = "no processor was provided"]
       ELSE IF name \notin resourceCreatorMap
         THEN [NotBuilt EXCEPT !.kind = "error", !.err = "not a valid resource type"]
       ELSE [kind |-> "informer", err |-> "nil",
             httpURL |-> getResourcesURL(c, Http, namespace, name, FALSE),
             wsURL |-> getResourcesURL(c, <<"w", "s">>, namespace, name, TRUE)]

\* Client.NewInformer.  http.NewRequest and websocket.NewConfig accept the
\* URLs built from the hosts drawn here.  config.Selector and
\* config.ResyncInterval are not looked at.
NewInformer(c, config, name) ==
    LET namespace == IF config.Namespace # <<>> THEN config.Namespace
                     ELSE IF config.podNamespace # <<>> THEN config.podNamespace
                     ELSE DefaultNamespace
    IN IF ~config.Processor
         THEN [NotBuilt EXCEPT !.kind = "error", !.err = "no processor was provided"]
       ELSE IF name \notin resourceCreatorMap
         THEN [NotBuilt EXCEPT !.kind = "error", !.err = "not a valid resource type"]
       ELSE [kind |-> "informer", err |-> "nil",
             httpURL |-> getResourcesURL(c, Http, namespace, name, FALSE),
             wsURL |-> getResourcesURL(c, <<"w", "s">>, namespace, name, TRUE)]

VARIABLES
    syncInterval, \* polling listener: --sync-interval, in seconds
    loopPc,       \* polling listener: "idle", "run" (Run's for, before mainLoop), "select", "sleep", "exited" (log.Fatal) or "panicked"
    watcher,      \* polling listener: the watch of this mainLoop entry: "none", "open" or "closed" (result channel closed)
    onetimeCh,    \* polling listener: values buffered in onetimeCh
    tickerC,      \* polling listener: ticks buffered in ticker.C
    kubeCh,       \* polling listener: the event the watcher is sending on its result channel, if any
    stdout,       \* polling listener: the Events written by marshalAndPrint
    outHist,      \* polling listener: for each Event written, its watch event type, its source and the mainLoop entry
    entries,      \* polling listener: entries into mainLoop whose watch was created
    watchSent,    \* polling listener: watch events sent so far
    ticks,        \* polling listener: ticks of the ticker so far
    recvHist,     \* polling listener: the watch events received by mainLoop, in order
    failedLists,  \* polling listener: the calls of resources.List that failed, so far
    informerConfig, \* the InformerConfig (but for Resource and ResyncInterval) and POD_NAMESPACE
    informer,     \* what NewInformer gave
    kubeConfig,   \* the ClientConfig and the discovery variables of the environment
    kubeClient,   \* what NewClient(kubeConfig) gave
    resource,     \* config.Resource
    resyncInterval, \* config.ResyncInterval, in minutes
    errCap,       \* capacity of the errChan handed to NewInformer
    harness,      \* who owns the channels: "KubeListener" (Run of package pkg) or "Library" (another caller of NewInformer)
    proc,         \* the process: "running", "exited" (os.Exit), "panicked" (close of a closed channel) or "nilPanic" (nil dereference)
    stop,         \* stopChan: "open" or "closed"
    stopAtStart,  \* stopChan was closed when the informer was created
    done,         \* doneChan: "open" or "closed"
    wg,           \* sync.WaitGroup counter of Informer.Run
    runPc,        \* Informer.Run: "init", "wait", "returned"
    watchPc,      \* Informer.watch: "idle","dial","for","select","receive","parkedFunnel","done"
    listPc,       \* Informer.list: "idle","request","inflight","select","parkedFunnel","done"
    drainPc,      \* drain goroutine of Informer.Run: "idle","recv","processing"
    funnel,       \* buffer of funnelChan
    sendqF,       \* goroutines parked on a send to funnelChan, with their values
    errChan,      \* buffer of errChan
    sendqE,       \* goroutines parked on a send to errChan, with their values
    signalChan,   \* number of signals buffered in signalChan
    signals,      \* OS signals raised so far
    frames,       \* frames decoded from the watch stream so far
    listGets,     \* GET requests issued by the Lister
    listPushes,   \* collections the Lister has put into funnelChan
    expiries,     \* expiries of time.After(ResyncInterval) taken by the Lister
    listDiags,    \* diagnostics the Lister has sent on errChan
    watchDiags,   \* diagnostics the Watcher has sent on errChan
    listFailed,   \* a list round trip has failed
    listSawStop,  \* the Lister's select has taken the stopChan case
    watchSawStop, \* the Watcher's select has taken the stopChan case
    watchFail,    \* where the Watcher failed: "none", "dial" or "receive"
    delivered,    \* values handed to config.Processor, in call order
    logOut,       \* package logrus: for each Logger, l.log.Out
    logLevel,     \* package logrus: for each Logger, l.log.Level
    buffers,      \* package logrus: for each io.Writer, the entries written to it
    logCalls,     \* package logrus: the calls of Info so far, in order
    logExit,      \* package logrus: Fatal has ended the process
    untilPc,      \* util.Until: "idle", "called", "f", "select", "returned" or "crashed"
    stopCh,       \* util.Until: its stopCh, "open" or "closed"
    stopAtCall,   \* util.Until: stopCh was closed when Until was called
    timerC,       \* util.Until: the channel of time.After(period) has its value
    fCalls,       \* util.Until: invocations of f so far
    periods,      \* util.Until: time.After cases taken by the select so far
    fPanics,      \* util.Until: panics raised by f so far
    handled,      \* util.Until: the panic handlers called so far, in order
    ReallyCrash,  \* package util: the ReallyCrash flag
    PanicHandlers, \* package util: the registered panic handlers
    klConfig,     \* resource.Run: the three events file options
    klPc,         \* resource.Run: "init" (not called), "watching", "exited" (glog.Fatalf) or "panicked"
    klWriters,    \* resource.Run: kl.addWriter, kl.updateWriter and kl.deleteWriter, "nil" or "file"
    klOut,        \* resource.Run: what was written to each writer
    klNotes,      \* resource.Run: notifications handled so far
    klPanics      \* resource.Run: handler panics the informer library recovered from

logVars == <<logOut, logLevel, buffers, logCalls, logExit>>
untilVars == <<untilPc, stopCh, stopAtCall, timerC, fCalls, periods, fPanics, handled,
               ReallyCrash, PanicHandlers>>
klVars == <<klConfig, klPc, klWriters, klOut, klNotes, klPanics>>
libVars == <<logVars, untilVars, klVars>>

pollVars == <<syncInterval, loopPc, watcher, onetimeCh, tickerC, kubeCh, stdout, outHist,
              entries, watchSent, ticks, recvHist, failedLists>>

vars == <<libVars, pollVars, informerConfig, informer, kubeConfig, kubeClient, resource, resyncInterval, errCap, harness, proc, stop, stopAtStart, done, wg, runPc, watchPc, listPc, drainPc,
          funnel, sendqF, errChan, sendqE, signalChan, signals, frames, listGets,
          listPushes, expiries, listDiags, watchDiags, listFailed, listSawStop, watchSawStop,
          watchFail, delivered>>

ctlVars == <<libVars, pollVars, informerConfig, informer, kubeConfig, kubeClient, resource, resyncInterval, errCap, harness, stopAtStart>>
histVars == <<listFailed, listSawStop, watchSawStop, watchFail>>

WatchEvent(n) == [src |-> "watch", n |-> n]
ListSnapshot(n) == [src |-> "list", n |-> n]

----
\* NewInformer: the informer, or nil and an error when config.Resource is no
\* key of resourceCreatorMap.  config.ResyncInterval is not looked at.
NewInformerOk == resource \in resourceCreatorMap

\* The channels and the tasks after NewInformer and before `go i.Run()`
InitTasks ==
    /\ harness \in {"KubeListener", "Library"}
    /\ proc = "running"
    /\ stop \in (IF harness = "Library" THEN {"open", "closed"} ELSE {"open"})
    /\ stopAtStart = (stop = "closed")
    /\ done = "open"
    /\ wg = 0
    /\ runPc = "init"
    /\ watchPc = "idle"
    /\ listPc = "idle"
    /\ drainPc = "idle"
    /\ funnel = <<>>
    /\ sendqF = <<>>
    /\ errChan = <<>>
    /\ sendqE = <<>>
    /\ signalChan = 0
    /\ signals = 0
    /\ frames = 0
    /\ listGets = 0
    /\ listPushes = 0
    /\ expiries = 0
    /\ listDiags = 0
    /\ watchDiags = 0
    /\ listFailed = FALSE
    /\ listSawStop = FALSE
    /\ watchSawStop = FALSE
    /\ watchFail = "none"
    /\ delivered = <<>>

----
\* Package logrus (the Logger over a logrus.Logger)

MaxLogs == 2
Loggers == {"MainLogger", "l"}
Writers == {"stderr", "buffer"}
testString == <<"m", "s", "g">>

\* logrus.Level by name, from PanicLevel up to DebugLevel
LevelNames == <<"panic", "fatal", "error", "warning", "info", "debug">>
Level(name) == CHOOSE i \in 1..Len(LevelNames) : LevelNames[i] = name
\* the level strings handed to SetLevel; "warn" parses to the warning level
LevelArgs == {"error", "info", "debug", "verbose"}
ParseLevel(level) ==
    IF level = "warn" THEN "warning"
    ELSE IF \E i \in 1..Len(LevelNames) : LevelNames[i] = level THEN level
    ELSE "invalid"

LevelChars(level) ==
    CASE level = "panic" -> <<"p", "a", "n", "i", "c">>
      [] level = "fatal" -> <<"f", "a", "t", "a", "l">>
      [] level = "error" -> <<"e", "r", "r", "o", "r">>
      [] level = "warn" -> <<"w", "a", "r", "n">>
      [] level = "warning" -> <<"w", "a", "r", "n", "i", "n", "g">>
      [] level = "info" -> <<"i", "n", "f", "o">>
      [] level = "debug" -> <<"d", "e", "b", "u", "g">>
      [] level = "verbose" -> <<"v", "e", "r", "b", "o", "s", "e">>

\* strings.ToUpper
ToUpper(str) ==
    [i \in 1..Len(str) |->
        IF \E k \in 1..Len(LowerLetters) : LowerLetters[k] = str[i]
        THEN UpperLetters[CHOOSE k \in 1..Len(LowerLetters) : LowerLetters[k] = str[i]]
        ELSE str[i]]

\* what time.Now, os.Hostname, os.Getpid and os.Args[0] give in one process
Timestamp == <<"1", "2", ":", "0", "0">>
Hostname == <<"n", "o", "d", "e">>
Pid == <<"7">>
Args0 == <<"k", "l">>
Tag(l) == IF l = "MainLogger" THEN Args0 ELSE <<>>

\* a Format that leaves the message out
DefaultFormatter_Format_NoMessage(tag, level, message) ==
    Timestamp \o <<" ">> \o Hostname \o <<" ">> \o tag \o <<"[">> \o Pid \o <<"]", ":", " ">>
        \o level \o <<" ">> \o <<"NEWLINE">>

\* DefaultFormatter.Format: Sprintf("%s %s %s[%d]: %s %s\n", ...)
DefaultFormatter_Format(tag, level, message) ==
    Timestamp \o <<" ">> \o Hostname \o <<" ">> \o tag \o <<"[">> \o Pid \o <<"]", ":", " ">>
        \o level \o <<" ">> \o message \o <<"NEWLINE">>

\* logrusFormatter.Format with the DefaultFormatter NewLogger gives the logger
\* (SetFormatter is not called)
Format(tag, level, message) ==
    DefaultFormatter_Format(tag, ToUpper(LevelChars(level)), message)

\* NewLogger: logrus.New() writes to os.Stderr at InfoLevel
NewLogger == [out |-> "stderr", level |-> "info"]

\* the package after its initialisation: MainLogger = NewLogger(), and one
\* more logger l = NewLogger()
LogIdle ==
    /\ logOut = [l \in Loggers |-> NewLogger.out]
    /\ logLevel = [l \in Loggers |-> NewLogger.level]
    /\ buffers = [w \in Writers |-> <<>>]
    /\ logCalls = <<>>
    /\ logExit = FALSE

----
\* Package util: Until and HandleCrash

MaxCalls == 3
HandlerLists == {<<"logPanic">>, <<"logPanic", "custom">>}

\* Until is not called
UntilIdle ==
    /\ untilPc = "idle"
    /\ stopCh = "open"
    /\ stopAtCall = FALSE
    /\ timerC = FALSE
    /\ fCalls = 0
    /\ periods = 0
    /\ fPanics = 0
    /\ handled = <<>>
    /\ ReallyCrash = FALSE
    /\ PanicHandlers = <<"logPanic">>

----
\* Package resource: Run and the handlers of the services informer

MaxNotes == 3
EventsFiles == {<<>>, <<"/", "d", "e", "v", "/", "s", "t", "d", "o", "u", "t">>,
                <<"/", "n", "o", "n", "e">>}
Kinds == {"add", "update", "delete"}

\* Run is not called
KlIdle ==
    /\ klConfig = [k \in Kinds |-> <<"/", "d", "e", "v", "/", "s", "t", "d", "o", "u", "t">>]
    /\ klPc = "init"
    /\ klWriters = [k \in Kinds |-> "nil"]
    /\ klOut = [k \in Kinds |-> <<>>]
    /\ klNotes = 0
    /\ klPanics = 0

LibraryIdle == LogIdle /\ UntilIdle /\ KlIdle

\* the polling listener is not this program
PollingIdle ==
    /\ syncInterval = SyncDefault
    /\ loopPc = "idle"
    /\ watcher = "none"
    /\ onetimeCh = 0
    /\ tickerC = 0
    /\ kubeCh = <<>>
    /\ stdout = <<>>
    /\ outHist = <<>>
    /\ entries = 0
    /\ watchSent = 0
    /\ ticks = 0
    /\ recvHist = <<>>
    /\ failedLists = 0

\* KubeListener.Run with the configuration of NewConfig, or another caller of
\* NewInformer with the same configuration and an errChan of the same capacity
Init ==
    /\ InitTasks
    /\ LibraryIdle
    /\ PollingIdle
    /\ kubeConfig = KubeListenerClientConfig
    /\ kubeClient = NewClient(kubeConfig)
    /\ resource = "services"
    /\ informerConfig = KubeListenerInformerConfig
    /\ informer = NewInformer(kubeClient, informerConfig, resource)
    /\ resyncInterval = ResyncDefault
    /\ errCap = ErrCap

\* any configuration
InitConfig ==
    /\ InitTasks
    /\ LibraryIdle
    /\ PollingIdle
    /\ kubeConfig = KubeListenerClientConfig
    /\ kubeClient = NewClient(kubeConfig)
    /\ resource \in Resources
    /\ informerConfig = KubeListenerInformerConfig
    /\ informer = NewInformer(kubeClient, informerConfig, resource)
    /\ resyncInterval \in ResyncIntervals
    /\ errCap \in (IF harness = "Library" THEN ErrCaps ELSE {ErrCap})

----
\* `defer wg.Done()` of a task; the Done that brings the counter to zero
\* releases wg.Wait() and Run's deferred close(i.doneChan) runs.
\* close of a closed channel panics.
WgDone ==
    /\ wg' = wg - 1
    /\ IF wg - 1 = 0
       THEN /\ runPc' = "returned"
            /\ IF done = "closed"
               THEN proc' = "panicked" /\ done' = done
               ELSE proc' = proc /\ done' = "closed"
       ELSE UNCHANGED <<runPc, proc, done>>

\* FunnelSend with the new value put at the head of the buffer
FunnelSend_Prepend(who, v) ==
    IF Len(funnel) < FunnelCap
    THEN funnel' = <<v>> \o funnel /\ sendqF' = sendqF
    ELSE funnel' = funnel /\ sendqF' = Append(sendqF, [who |-> who, val |-> v])

\* i.funnelChan <- v
FunnelSend(who, v) ==
    IF Len(funnel) < FunnelCap
    THEN funnel' = Append(funnel, v) /\ sendqF' = sendqF
    ELSE funnel' = funnel /\ sendqF' = Append(sendqF, [who |-> who, val |-> v])

\* AfterFunnelSend with the Lister going straight back to the top of its loop
AfterFunnelSend_NoWait(who) == IF who = "watch" THEN "for" ELSE "request"

\* the statement after a completed funnel send: the next iteration of
\* watch's for, the select of list
AfterFunnelSend(who) == IF who = "watch" THEN "for" ELSE "select"

\* a send that puts the diagnostic on errChan twice
ErrSend_Twice(who, kind) ==
    IF Len(errChan) + 1 < errCap
    THEN /\ errChan' = errChan \o <<[src |-> who, kind |-> kind], [src |-> who, kind |-> kind]>>
         /\ sendqE' = sendqE
    ELSE errChan' = errChan /\ sendqE' = Append(sendqE, [src |-> who, kind |-> kind])

\* i.errChan <- err
ErrSend(who, kind) ==
    IF Len(errChan) < errCap
    THEN errChan' = Append(errChan, [src |-> who, kind |-> kind]) /\ sendqE' = sendqE
    ELSE errChan' = errChan /\ sendqE' = Append(sendqE, [src |-> who, kind |-> kind])

\* `go i.Run()` and Informer.Run up to wg.Wait(): the three wg.Add(1) /
\* go func() pairs.  KubeListener.Run drops the error of NewInformer, so it
\* calls Run on the nil informer, whose `defer close(i.doneChan)` dereferences
\* nil; another caller is taken to return on the error.
RunStart ==
    /\ proc = "running"
    /\ runPc = "init"
    /\ NewInformerOk \/ harness = "KubeListener"
    /\ IF NewInformerOk
       THEN /\ runPc' = "wait"
            /\ wg' = 3
            /\ watchPc' = "dial"
            /\ listPc' = "request"
            /\ drainPc' = "recv"
            /\ proc' = proc
       ELSE /\ proc' = "nilPanic"
            /\ UNCHANGED <<runPc, wg, watchPc, listPc, drainPc>>
    /\ UNCHANGED <<ctlVars, histVars, stop, done, funnel, sendqF, errChan, sendqE,
                   signalChan, signals, frames, listGets, listPushes, expiries, listDiags,
                   watchDiags, delivered>>

----
\* Informer.watch

\* WatchDial with the return after the diagnostic missing
WatchDial_NoReturn(ok) ==
    /\ proc = "running"
    /\ watchPc = "dial"
    /\ IF ok
       THEN /\ watchPc' = "for"
            /\ UNCHANGED <<errChan, sendqE, watchDiags, watchFail>>
       ELSE /\ ErrSend("watch", "dial")
            /\ watchDiags' = watchDiags + 1
            /\ watchFail' = "dial"
            /\ watchPc' = IF Len(errChan) < errCap THEN "for" ELSE "parkedErr"
    /\ UNCHANGED <<ctlVars, listFailed, listSawStop, watchSawStop, stop, listPc, drainPc,
                   funnel, sendqF, signalChan, signals, frames, listGets, listPushes,
                   expiries, listDiags, delivered, wg, runPc, proc, done>>

\* websocket.DialConfig; on error the diagnostic is sent and watch returns
WatchDial(ok) ==
    /\ proc = "running"
    /\ watchPc = "dial"
    /\ IF ok
       THEN /\ watchPc' = "for"
            /\ UNCHANGED <<errChan, sendqE, watchDiags, watchFail, wg, runPc, proc, done>>
       ELSE /\ ErrSend("watch", "dial")
            /\ watchDiags' = watchDiags + 1
            /\ watchFail' = "dial"
            /\ IF Len(errChan) < errCap
               THEN watchPc' = "done" /\ WgDone
               ELSE watchPc' = "parkedErr" /\ UNCHANGED <<wg, runPc, proc, done>>
    /\ UNCHANGED <<ctlVars, listFailed, listSawStop, watchSawStop, stop, listPc, drainPc, funnel, sendqF, signalChan,
                   signals, frames, listGets, listPushes, expiries, listDiags, delivered>>

\* top of `for {`: enter the select
WatchFor ==
    /\ proc = "running"
    /\ watchPc = "for"
    /\ watchPc' = "select"
    /\ UNCHANGED <<ctlVars, histVars, proc, stop, done, wg, runPc, listPc, drainPc, funnel,
                   sendqF, errChan, sendqE, signalChan, signals, frames, listGets,
                   listPushes, expiries, listDiags, watchDiags, delivered>>

\* select { case <-i.stopChan: break ; default: ... }: the stop case is taken
\* whenever stopChan is closed; its break leaves the select, not the for
WatchSelect ==
    /\ proc = "running"
    /\ watchPc = "select"
    /\ IF stop = "closed"
       THEN watchPc' = "for" /\ watchSawStop' = TRUE
       ELSE watchPc' = "receive" /\ watchSawStop' = watchSawStop
    /\ UNCHANGED <<ctlVars, listFailed, listSawStop, watchFail, proc, stop, done, wg, runPc, listPc,
                   drainPc, funnel, sendqF, errChan, sendqE, signalChan, signals, frames,
                   listGets, listPushes, expiries, listDiags, watchDiags, delivered>>

\* websocket.JSON.Receive returns a decoded frame; i.funnelChan <- we
WatchFrame(limit) ==
    /\ proc = "running"
    /\ watchPc = "receive"
    /\ frames < limit
    /\ frames' = frames + 1
    /\ FunnelSend("watch", WatchEvent(frames + 1))
    /\ watchPc' = IF Len(funnel) < FunnelCap THEN AfterFunnelSend("watch") ELSE "parkedFunnel"
    /\ UNCHANGED <<ctlVars, histVars, proc, stop, done, wg, runPc, listPc, drainPc, errChan,
                   sendqE, signalChan, signals, listGets, listPushes, expiries, listDiags,
                   watchDiags, delivered>>

\* WatchReceiveError with the Watcher dialling again after the diagnostic
WatchReceiveError_Reconnect ==
    /\ proc = "running"
    /\ watchPc = "receive"
    /\ ErrSend("watch", "receive")
    /\ watchDiags' = watchDiags + 1
    /\ watchFail' = "receive"
    /\ watchPc' = IF Len(errChan) < errCap THEN "dial" ELSE "parkedErr"
    /\ UNCHANGED <<ctlVars, listFailed, listSawStop, watchSawStop, stop, listPc, drainPc,
                   funnel, sendqF, signalChan, signals, frames, listGets, listPushes,
                   expiries, listDiags, delivered, wg, runPc, proc, done>>

\* websocket.JSON.Receive fails (read error, decode error, stream closed):
\* the diagnostic is sent and watch returns
WatchReceiveError ==
    /\ proc = "running"
    /\ watchPc = "receive"
    /\ ErrSend("watch", "receive")
    /\ watchDiags' = watchDiags + 1
    /\ watchFail' = "receive"
    /\ IF Len(errChan) < errCap
       THEN watchPc' = "done" /\ WgDone
       ELSE watchPc' = "parkedErr" /\ UNCHANGED <<wg, runPc, proc, done>>
    /\ UNCHANGED <<ctlVars, listFailed, listSawStop, watchSawStop, stop, listPc, drainPc, funnel, sendqF, signalChan,
                   signals, frames, listGets, listPushes, expiries, listDiags, delivered>>

----
\* Informer.list

\* top of `for {`: ctxhttp.Do issues the GET
ListRequest ==
    /\ proc = "running"
    /\ listPc = "request"
    /\ listGets' = listGets + 1
    /\ listPc' = "inflight"
    /\ UNCHANGED <<ctlVars, histVars, proc, stop, done, wg, runPc, watchPc, drainPc, funnel,
                   sendqF, errChan, sendqE, signalChan, signals, frames, listPushes,
                   expiries, listDiags, watchDiags, delivered>>

\* ListResponse with a failed round trip sending its diagnostic and then
\* waiting for the next resync instead of returning
ListResponse_Retry(outcome) ==
    /\ proc = "running"
    /\ listPc = "inflight"
    /\ outcome = "ok" => listGets <= MaxLists
    /\ IF outcome = "ok"
       THEN /\ FunnelSend("list", ListSnapshot(listGets))
            /\ IF Len(funnel) < FunnelCap
               THEN listPc' = AfterFunnelSend("list") /\ listPushes' = listPushes + 1
               ELSE listPc' = "parkedFunnel" /\ listPushes' = listPushes
            /\ UNCHANGED <<errChan, sendqE, listDiags, listFailed>>
       ELSE /\ ErrSend("list", outcome)
            /\ listDiags' = listDiags + 1
            /\ listFailed' = TRUE
            /\ listPc' = IF Len(errChan) < errCap THEN "select" ELSE "parkedErr"
            /\ UNCHANGED <<funnel, sendqF, listPushes>>
    /\ UNCHANGED <<ctlVars, listSawStop, watchSawStop, watchFail, stop, watchPc, drainPc, signalChan,
                   signals, frames, listGets, expiries, watchDiags, delivered, wg, runPc,
                   proc, done>>

\* the round trip completes.  A transport error, a body read error, a status
\* other than 200 or a decode error sends one diagnostic and list returns;
\* otherwise i.funnelChan <- v and the Lister enters its select
ListResponse(outcome) ==
    /\ proc = "running"
    /\ listPc = "inflight"
    /\ outcome = "ok" => listGets <= MaxLists
    /\ IF outcome = "ok"
       THEN /\ FunnelSend("list", ListSnapshot(listGets))
            /\ IF Len(funnel) < FunnelCap
               THEN listPc' = AfterFunnelSend("list") /\ listPushes' = listPushes + 1
               ELSE listPc' = "parkedFunnel" /\ listPushes' = listPushes
            /\ UNCHANGED <<errChan, sendqE, listDiags, listFailed, wg, runPc, proc, done>>
       ELSE /\ ErrSend("list", outcome)
            /\ listDiags' = listDiags + 1
            /\ listFailed' = TRUE
            /\ IF Len(errChan) < errCap
               THEN listPc' = "done" /\ WgDone
               ELSE listPc' = "parkedErr" /\ UNCHANGED <<wg, runPc, proc, done>>
            /\ UNCHANGED <<funnel, sendqF, listPushes>>
    /\ UNCHANGED <<ctlVars, listSawStop, watchSawStop, watchFail, stop, watchPc, drainPc, signalChan,
                   signals, frames, listGets, expiries, watchDiags, delivered>>

\* select { case <-i.stopChan: break ... }: the stop case; its break leaves
\* the select, not the for, so the loop body runs again
ListSelectStop ==
    /\ proc = "running"
    /\ listPc = "select"
    /\ stop = "closed"
    /\ listPc' = "request"
    /\ listSawStop' = TRUE
    /\ UNCHANGED <<ctlVars, listFailed, watchSawStop, watchFail, proc, stop, done, wg, runPc, watchPc,
                   drainPc, funnel, sendqF, errChan, sendqE, signalChan, signals, frames,
                   listGets, listPushes, expiries, listDiags, watchDiags, delivered>>

\* select { ... case <-time.After(i.config.ResyncInterval): continue }
ListSelectTimer ==
    /\ proc = "running"
    /\ listPc = "select"
    /\ listPc' = "request"
    /\ expiries' = expiries + 1
    /\ UNCHANGED <<ctlVars, histVars, proc, stop, done, wg, runPc, watchPc, drainPc, funnel,
                   sendqF, errChan, sendqE, signalChan, signals, frames, listGets,
                   listPushes, listDiags, watchDiags, delivered>>

----
\* drain goroutine of Informer.Run

\* DrainReceive held back while the Lister waits for its resync timer
DrainReceive_AfterResync ==
    /\ proc = "running"
    /\ drainPc = "recv"
    /\ Len(funnel) > 0
    /\ listPc # "select"
    /\ delivered' = Append(delivered, Head(funnel))
    /\ drainPc' = "processing"
    /\ IF sendqF # <<>>
       THEN /\ funnel' = Append(Tail(funnel), Head(sendqF).val)
            /\ sendqF' = Tail(sendqF)
            /\ watchPc' = IF Head(sendqF).who = "watch" THEN AfterFunnelSend("watch") ELSE watchPc
            /\ listPc' = IF Head(sendqF).who = "list" THEN AfterFunnelSend("list") ELSE listPc
            /\ listPushes' = IF Head(sendqF).who = "list" THEN listPushes + 1 ELSE listPushes
       ELSE /\ funnel' = Tail(funnel)
            /\ UNCHANGED <<sendqF, watchPc, listPc, listPushes>>
    /\ UNCHANGED <<ctlVars, histVars, proc, stop, done, wg, runPc, errChan, sendqE,
                   signalChan, signals, frames, listGets, expiries, listDiags, watchDiags>>

\* case v := <-i.funnelChan: the head of the buffer is received and
\* i.config.Processor(v) is called; a sender parked on the full channel gets
\* the freed slot and resumes after its send
DrainReceive ==
    /\ proc = "running"
    /\ drainPc = "recv"
    /\ Len(funnel) > 0
    /\ delivered' = Append(delivered, Head(funnel))
    /\ drainPc' = "processing"
    /\ IF sendqF # <<>>
       THEN /\ funnel' = Append(Tail(funnel), Head(sendqF).val)
            /\ sendqF' = Tail(sendqF)
            /\ watchPc' = IF Head(sendqF).who = "watch" THEN AfterFunnelSend("watch") ELSE watchPc
            /\ listPc' = IF Head(sendqF).who = "list" THEN AfterFunnelSend("list") ELSE listPc
            /\ listPushes' = IF Head(sendqF).who = "list" THEN listPushes + 1 ELSE listPushes
       ELSE /\ funnel' = Tail(funnel)
            /\ UNCHANGED <<sendqF, watchPc, listPc, listPushes>>
    /\ UNCHANGED <<ctlVars, histVars, proc, stop, done, wg, runPc, errChan, sendqE,
                   signalChan, signals, frames, listGets, expiries, listDiags, watchDiags>>

\* i.config.Processor(v) returns; the for loop goes back to the select
ProcessorReturn ==
    /\ proc = "running"
    /\ drainPc = "processing"
    /\ drainPc' = "recv"
    /\ UNCHANGED <<ctlVars, histVars, proc, stop, done, wg, runPc, watchPc, listPc, funnel,
                   sendqF, errChan, sendqE, signalChan, signals, frames, listGets,
                   listPushes, expiries, listDiags, watchDiags, delivered>>

----
\* the owner of the control channels

\* the caller of NewInformer closes the stop channel it supplied
CloseStop ==
    /\ proc = "running"
    /\ harness = "Library"
    /\ stop = "open"
    /\ stop' = "closed"
    /\ UNCHANGED <<ctlVars, histVars, proc, done, wg, runPc, watchPc, listPc, drainPc, funnel,
                   sendqF, errChan, sendqE, signalChan, signals, frames, listGets,
                   listPushes, expiries, listDiags, watchDiags, delivered>>

\* SIGINT or SIGTERM is raised; signal.Notify delivers without blocking and
\* drops the signal when signalChan is full
OsSignal ==
    /\ proc = "running"
    /\ harness = "KubeListener"
    /\ signals < MaxSignals
    /\ signals' = signals + 1
    /\ signalChan' = IF signalChan < SignalCap THEN signalChan + 1 ELSE signalChan
    /\ UNCHANGED <<ctlVars, histVars, proc, stop, done, wg, runPc, watchPc, listPc, drainPc,
                   funnel, sendqF, errChan, sendqE, frames, listGets, listPushes,
                   expiries, listDiags, watchDiags, delivered>>

\* case err := <-errChan: glog.Error(err); a sender parked on the full
\* channel gets the freed slot, completes its send and returns
MainRecvErr ==
    /\ proc = "running"
    /\ Len(errChan) > 0
    /\ IF sendqE # <<>>
       THEN /\ errChan' = Append(Tail(errChan), Head(sendqE))
            /\ sendqE' = Tail(sendqE)
            /\ watchPc' = IF Head(sendqE).src = "watch" THEN "done" ELSE watchPc
            /\ listPc' = IF Head(sendqE).src = "list" THEN "done" ELSE listPc
            /\ WgDone
       ELSE /\ errChan' = Tail(errChan)
            /\ UNCHANGED <<sendqE, watchPc, listPc, wg, runPc, proc, done>>
    /\ UNCHANGED <<ctlVars, histVars, stop, drainPc, funnel, sendqF, signalChan, signals,
                   frames, listGets, listPushes, expiries, listDiags, watchDiags, delivered>>

\* case s := <-signalChan: close(doneChan); close of a closed channel panics
MainSignal ==
    /\ proc = "running"
    /\ harness = "KubeListener"
    /\ signalChan > 0
    /\ signalChan' = signalChan - 1
    /\ IF done = "closed"
       THEN proc' = "panicked" /\ done' = done
       ELSE proc' = proc /\ done' = "closed"
    /\ UNCHANGED <<ctlVars, histVars, stop, wg, runPc, watchPc, listPc, drainPc, funnel,
                   sendqF, errChan, sendqE, signals, frames, listGets, listPushes,
                   expiries, listDiags, watchDiags, delivered>>

\* case <-doneChan: os.Exit(0)
MainDone ==
    /\ proc = "running"
    /\ harness = "KubeListener"
    /\ done = "closed"
    /\ proc' = "exited"
    /\ UNCHANGED <<ctlVars, histVars, stop, done, wg, runPc, watchPc, listPc, drainPc, funnel,
                   sendqF, errChan, sendqE, signalChan, signals, frames, listGets,
                   listPushes, expiries, listDiags, watchDiags, delivered>>

----
Next ==
    \/ RunStart
    \/ \E ok \in BOOLEAN : WatchDial(ok)
    \/ WatchFor
    \/ WatchSelect
    \/ WatchFrame(MaxFrames)
    \/ WatchReceiveError
    \/ ListRequest
    \/ \E outcome \in ListOutcomes : ListResponse(outcome)
    \/ ListSelectStop
    \/ ListSelectTimer
    \/ DrainReceive
    \/ ProcessorReturn
    \/ CloseStop
    \/ OsSignal
    \/ MainRecvErr
    \/ MainSignal
    \/ MainDone

Spec == Init /\ [][Next]_vars

\* Scheduling: a runnable goroutine is eventually run, a pending I/O
\* operation eventually completes and a started timer eventually fires.  The
\* closing of stopChan and the raising of OS signals are left to their owner.
Fairness ==
    /\ WF_vars(RunStart)
    /\ WF_vars(\E ok \in BOOLEAN : WatchDial(ok))
    /\ WF_vars(WatchFor)
    /\ WF_vars(WatchSelect)
    /\ WF_vars(WatchFrame(MaxFrames) \/ WatchReceiveError)
    /\ WF_vars(ListRequest)
    /\ WF_vars(\E outcome \in ListOutcomes : ListResponse(outcome))
    /\ WF_vars(ListSelectStop)
    /\ WF_vars(ListSelectTimer)
    /\ WF_vars(DrainReceive)
    /\ WF_vars(ProcessorReturn)
    /\ WF_vars(MainRecvErr)
    /\ WF_vars(MainSignal)
    /\ WF_vars(MainDone)

FairSpec == Spec /\ Fairness

\* The Funnel is being drained: the drain goroutine is scheduled and the
\* processing function returns.  Nothing is assumed of the Lister, of the
\* resync timer or of the Watcher.
\* KubeListener.Run while no OS signal is raised: stopChan stays open and the
\* process does not end.
InitKubeListener == Init /\ harness = "KubeListener"

NextNoSignal ==
    \/ RunStart
    \/ \E ok \in BOOLEAN : WatchDial(ok)
    \/ WatchFor
    \/ WatchSelect
    \/ WatchFrame(MaxFrames)
    \/ WatchReceiveError
    \/ ListRequest
    \/ \E outcome \in ListOutcomes : ListResponse(outcome)
    \/ ListSelectTimer
    \/ DrainReceive
    \/ ProcessorReturn
    \/ MainRecvErr

DrainFairSpec ==
    InitKubeListener /\ [][NextNoSignal]_vars /\ WF_vars(DrainReceive) /\ WF_vars(ProcessorReturn)

----
\* Sustained backpressure: the watch stream keeps delivering frames while the
\* call of config.Processor does not return, so the drain goroutine takes at
\* most one value out of funnelChan.
NextBackpressure ==
    \/ RunStart
    \/ WatchDial(TRUE)
    \/ WatchFor
    \/ WatchSelect
    \/ WatchFrame(BurstFrames)
    \/ ListRequest
    \/ ListResponse("ok")
    \/ DrainReceive

SpecBackpressure == Init /\ [][NextBackpressure]_vars

\* every configuration the flags and a caller of NewInformer can produce
SpecConfig == InitConfig /\ [][Next]_vars

----
\* NewClient on its own: any ClientConfig and any environment, no informer
InitNewClient ==
    /\ InitTasks
    /\ LibraryIdle
    /\ PollingIdle
    /\ harness = "Library"
    /\ stop = "open"
    /\ resource = "services"
    /\ resyncInterval = ResyncDefault
    /\ errCap = ErrCap
    /\ kubeConfig \in ClientConfigs
    /\ kubeClient = NotCalled
    /\ informerConfig = KubeListenerInformerConfig
    /\ informer = NotBuilt

\* kubeClient, err := kclient.NewClient(kubeConfig)
CallNewClient ==
    /\ kubeClient = NotCalled
    /\ kubeClient' = NewClient(kubeConfig)
    /\ UNCHANGED <<libVars, pollVars, informerConfig, informer, kubeConfig, resource, resyncInterval, errCap,
                   harness, stopAtStart, histVars, proc, stop, done, wg, runPc, watchPc, listPc, drainPc, funnel,
                   sendqF, errChan, sendqE, signalChan, signals, frames, listGets,
                   listPushes, expiries, listDiags, watchDiags, delivered>>

SpecNewClient == InitNewClient /\ [][CallNewClient]_vars

----
\* NewClient and then NewInformer on its client: any ClientConfig, any
\* InformerConfig and any environment; the informer is not run
InitNewInformer ==
    /\ InitTasks
    /\ LibraryIdle
    /\ PollingIdle
    /\ harness = "Library"
    /\ stop = "open"
    /\ resource \in Resources
    /\ resyncInterval = ResyncDefault
    /\ errCap = ErrCap
    /\ kubeConfig \in ClientConfigs
    /\ kubeClient = NotCalled
    /\ informerConfig \in InformerConfigs
    /\ informer = NotBuilt

\* i, err := kubeClient.NewInformer(informerConfig, stopChan, doneChan, errChan)
CallNewInformer ==
    /\ kubeClient.kind = "client"
    /\ informer = NotBuilt
    /\ informer' = NewInformer(kubeClient, informerConfig, resource)
    /\ UNCHANGED <<libVars, pollVars, informerConfig, kubeConfig, kubeClient, resource, resyncInterval, errCap,
                   harness, stopAtStart, histVars, proc, stop, done, wg, runPc, watchPc,
                   listPc, drainPc, funnel, sendqF, errChan, sendqE, signalChan, signals,
                   frames, listGets, listPushes, expiries, listDiags, watchDiags, delivered>>

SpecNewInformer == InitNewInformer /\ [][CallNewClient \/ CallNewInformer]_vars

----
\* The polling listener (kubelistener.go): Run and mainLoop

engineVars ==
    <<informerConfig, informer, kubeConfig, kubeClient, resource, resyncInterval, errCap,
      harness, proc, stop, stopAtStart, done, wg, runPc, watchPc, listPc, drainPc, funnel,
      sendqF, errChan, sendqE, signalChan, signals, frames, listGets, listPushes, expiries,
      listDiags, watchDiags, listFailed, listSawStop, watchSawStop, watchFail, delivered>>

\* Run at the top of its `for`, the client and the resources created
InitPolling ==
    /\ InitTasks
    /\ LibraryIdle
    /\ harness = "Library"
    /\ stop = "open"
    /\ kubeConfig = KubeListenerClientConfig
    /\ kubeClient = NewClient(kubeConfig)
    /\ resource = "services"
    /\ informerConfig = KubeListenerInformerConfig
    /\ informer = NotBuilt
    /\ resyncInterval = ResyncDefault
    /\ errCap = ErrCap
    /\ syncInterval \in SyncIntervals
    /\ loopPc = "run"
    /\ watcher = "none"
    /\ onetimeCh = 0
    /\ tickerC = 0
    /\ kubeCh = <<>>
    /\ stdout = <<>>
    /\ outHist = <<>>
    /\ entries = 0
    /\ watchSent = 0
    /\ ticks = 0
    /\ recvHist = <<>>
    /\ failedLists = 0

\* getResourcesList(eventType) whose resources.List succeeded: one
\* marshalAndPrint(NewEvent(eventType, i)) for each item
ListEvents(eventType) ==
    [i \in 1..Len(ResourceList) |-> NewEvent(eventType, ResourceList[i])]
ListHist(eventType) ==
    [i \in 1..Len(ResourceList) |->
        [of |-> eventType, src |-> "list", entry |-> entries, object |-> ResourceList[i]]]

\* getResourcesList writing the first item of a list that failed
getResourcesList_Partial(eventType, listOk) ==
    IF listOk
    THEN /\ stdout' = stdout \o ListEvents(eventType)
         /\ outHist' = outHist \o ListHist(eventType)
         /\ UNCHANGED failedLists
    ELSE /\ failedLists' = failedLists + 1
         /\ stdout' = Append(stdout, ListEvents(eventType)[1])
         /\ outHist' = Append(outHist, ListHist(eventType)[1])

\* getResourcesList(eventType): the Events of the list are written, or the
\* failure of resources.List is logged and nothing is written
getResourcesList(eventType, listOk) ==
    IF listOk
    THEN /\ stdout' = stdout \o ListEvents(eventType)
         /\ outHist' = outHist \o ListHist(eventType)
         /\ UNCHANGED failedLists
    ELSE /\ failedLists' = failedLists + 1
         /\ UNCHANGED <<stdout, outHist>>

\* mainLoop up to its `for`: resources.Watch fails and mainLoop returns, or
\* the one-time channel is filled and the ticker created; time.NewTicker
\* panics on an interval that is not positive
MainLoopWatch(ok) ==
    /\ loopPc = "run"
    /\ ok => entries < MaxEntries
    /\ IF ~ok
       THEN /\ loopPc' = "sleep"
            /\ UNCHANGED <<watcher, onetimeCh, tickerC, kubeCh, entries>>
       ELSE IF syncInterval <= 0
       THEN /\ loopPc' = "panicked"
            /\ UNCHANGED <<watcher, onetimeCh, tickerC, kubeCh, entries>>
       ELSE /\ loopPc' = "select"
            /\ watcher' = "open"
            /\ onetimeCh' = 1
            /\ tickerC' = 0
            /\ kubeCh' = <<>>
            /\ entries' = entries + 1
    /\ UNCHANGED <<libVars, engineVars, failedLists, syncInterval, stdout, outHist, watchSent, ticks, recvHist>>

\* case <-onetimeCh: getResourcesList(kwatch.Added)
SelectOnetime(listOk) ==
    /\ loopPc = "select"
    /\ onetimeCh = 1
    /\ onetimeCh' = 0
    /\ getResourcesList("ADDED", listOk)
    /\ UNCHANGED <<libVars, engineVars, syncInterval, loopPc, watcher, tickerC, kubeCh, entries,
                   watchSent, ticks, recvHist>>

\* the ticker fires; a tick is dropped when ticker.C already holds one
Tick ==
    /\ loopPc = "select"
    /\ ticks < MaxTicks
    /\ ticks' = ticks + 1
    /\ tickerC' = 1
    /\ UNCHANGED <<libVars, engineVars, failedLists, syncInterval, loopPc, watcher, onetimeCh, kubeCh, stdout,
                   outHist, entries, watchSent, recvHist>>

\* case <-ticker.C: getResourcesList(kwatch.Modified)
SelectTick(listOk) ==
    /\ loopPc = "select"
    /\ tickerC = 1
    /\ tickerC' = 0
    /\ getResourcesList("MODIFIED", listOk)
    /\ UNCHANGED <<libVars, engineVars, syncInterval, loopPc, watcher, onetimeCh, kubeCh, entries,
                   watchSent, ticks, recvHist>>

\* the watcher sends an event on its unbuffered result channel
WatchSend(eventType) ==
    /\ loopPc = "select"
    /\ watcher = "open"
    /\ kubeCh = <<>>
    /\ watchSent < MaxWatchEvents
    /\ watchSent' = watchSent + 1
    /\ kubeCh' = <<[Type |-> eventType, Object |-> WatchObject(watchSent + 1)]>>
    /\ UNCHANGED <<libVars, engineVars, failedLists, syncInterval, loopPc, watcher, onetimeCh, tickerC, stdout,
                   outHist, entries, ticks, recvHist>>

\* the watcher closes its result channel
WatchClose ==
    /\ loopPc = "select"
    /\ watcher = "open"
    /\ kubeCh = <<>>
    /\ watcher' = "closed"
    /\ UNCHANGED <<libVars, engineVars, failedLists, syncInterval, loopPc, onetimeCh, tickerC, kubeCh, stdout,
                   outHist, entries, watchSent, ticks, recvHist>>

\* SelectEvent writing the Error event like any other and going on
SelectEvent_WritesError ==
    /\ loopPc = "select"
    /\ kubeCh # <<>>
    /\ kubeCh' = <<>>
    /\ recvHist' = Append(recvHist, kubeCh[1])
    /\ loopPc' = loopPc
    /\ stdout' = Append(stdout, NewEvent(kubeCh[1].Type, kubeCh[1].Object))
    /\ outHist' = Append(outHist, [of |-> kubeCh[1].Type, src |-> "watch",
                                   entry |-> entries, object |-> kubeCh[1].Object])
    /\ UNCHANGED <<libVars, engineVars, failedLists, syncInterval, watcher, onetimeCh, tickerC,
                   entries, watchSent, ticks>>

\* case event, ok := <-kubeCh with ok: an Error event ends the process in
\* log.Fatal, any other event is marshalAndPrint(NewEvent(...))
SelectEvent ==
    /\ loopPc = "select"
    /\ kubeCh # <<>>
    /\ kubeCh' = <<>>
    /\ recvHist' = Append(recvHist, kubeCh[1])
    /\ IF kubeCh[1].Type = "ERROR"
       THEN /\ loopPc' = "exited"
            /\ UNCHANGED <<stdout, outHist>>
       ELSE /\ loopPc' = loopPc
            /\ stdout' = Append(stdout, NewEvent(kubeCh[1].Type, kubeCh[1].Object))
            /\ outHist' = Append(outHist, [of |-> kubeCh[1].Type, src |-> "watch",
                                           entry |-> entries, object |-> kubeCh[1].Object])
    /\ UNCHANGED <<libVars, engineVars, failedLists, syncInterval, watcher, onetimeCh, tickerC, entries,
                   watchSent, ticks>>

\* SelectClosed with Run returning when mainLoop does
SelectClosed_RunReturns ==
    /\ loopPc = "select"
    /\ watcher = "closed"
    /\ kubeCh = <<>>
    /\ loopPc' = "returned"
    /\ watcher' = "none"
    /\ onetimeCh' = 0
    /\ tickerC' = 0
    /\ UNCHANGED <<libVars, engineVars, failedLists, syncInterval, kubeCh, stdout, outHist, entries, watchSent,
                   ticks, recvHist>>

\* case event, ok := <-kubeCh with !ok: mainLoop returns (watcher.Stop is
\* deferred) and Run goes to its time.Sleep
SelectClosed ==
    /\ loopPc = "select"
    /\ watcher = "closed"
    /\ kubeCh = <<>>
    /\ loopPc' = "sleep"
    /\ watcher' = "none"
    /\ onetimeCh' = 0
    /\ tickerC' = 0
    /\ UNCHANGED <<libVars, engineVars, failedLists, syncInterval, kubeCh, stdout, outHist, entries, watchSent,
                   ticks, recvHist>>

\* time.Sleep(500 * time.Millisecond) is over: the next iteration of Run's for
SleepDone ==
    /\ loopPc = "sleep"
    /\ loopPc' = "run"
    /\ UNCHANGED <<libVars, engineVars, failedLists, syncInterval, watcher, onetimeCh, tickerC, kubeCh, stdout,
                   outHist, entries, watchSent, ticks, recvHist>>

NextPolling ==
    \/ \E ok \in BOOLEAN : MainLoopWatch(ok)
    \/ \E listOk \in BOOLEAN : SelectOnetime(listOk)
    \/ Tick
    \/ \E listOk \in BOOLEAN : SelectTick(listOk)
    \/ \E eventType \in EventTypes : WatchSend(eventType)
    \/ WatchClose
    \/ SelectEvent
    \/ SelectClosed
    \/ SleepDone

SpecPolling == InitPolling /\ [][NextPolling]_vars

\* Scheduling of the polling listener: its goroutine runs when it can, calls
\* return and the sleep ends.  Nothing is assumed of the watcher or the ticker.
FairPolling ==
    /\ WF_vars(\E ok \in BOOLEAN : MainLoopWatch(ok))
    /\ WF_vars((\E listOk \in BOOLEAN : SelectOnetime(listOk))
                \/ (\E listOk \in BOOLEAN : SelectTick(listOk))
                \/ SelectEvent \/ SelectClosed)
    /\ WF_vars(SleepDone)

\* Run and mainLoop while the ticker has not fired yet
NextBeforeTick ==
    \/ \E ok \in BOOLEAN : MainLoopWatch(ok)
    \/ \E listOk \in BOOLEAN : SelectOnetime(listOk)
    \/ \E eventType \in EventTypes : WatchSend(eventType)
    \/ WatchClose
    \/ SelectEvent
    \/ SelectClosed
    \/ SleepDone

FairSpecPolling == InitPolling /\ [][NextBeforeTick]_vars /\ FairPolling

\* One call of mainLoop whose resources.Watch succeeds, up to its return
NextMainLoop ==
    \/ MainLoopWatch(TRUE)
    \/ \E listOk \in BOOLEAN : SelectOnetime(listOk)
    \/ Tick
    \/ \E listOk \in BOOLEAN : SelectTick(listOk)
    \/ \E eventType \in EventTypes : WatchSend(eventType)
    \/ WatchClose
    \/ SelectEvent
    \/ SelectClosed

SpecMainLoop == InitPolling /\ [][NextMainLoop]_vars

----
\* No informer and no polling listener: the state the library packages are
\* used from
OtherIdle ==
    /\ InitTasks
    /\ PollingIdle
    /\ harness = "Library"
    /\ stop = "open"
    /\ resource = "services"
    /\ resyncInterval = ResyncDefault
    /\ errCap = ErrCap
    /\ kubeConfig = KubeListenerClientConfig
    /\ kubeClient = NotCalled
    /\ informerConfig = KubeListenerInformerConfig
    /\ informer = NotBuilt

----
\* Package logrus: MainLogger and a logger of NewLogger, used by one goroutine

InitLogger == OtherIdle /\ LibraryIdle

\* l.SetOutput(w)
SetOutput(l, w) ==
    /\ ~logExit
    /\ logOut' = [logOut EXCEPT ![l] = w]
    /\ UNCHANGED <<engineVars, pollVars, untilVars, klVars, logLevel, buffers, logCalls,
                   logExit>>

\* the message of the Fatal of SetLevel
NotAValidLevel(level) ==
    <<"n", "o", "t", " ", "a", " ", "v", "a", "l", "i", "d", " ", "l", "e", "v", "e", "l", ":",
      " ", "QUOTE">> \o LevelChars(level) \o <<"QUOTE">>

\* l.SetLevel(level); a level that does not parse is Fatal: MainLogger writes
\* the entry, unless its level is below fatal, and the process exits
SetLevel(l, level) ==
    /\ ~logExit
    /\ IF ParseLevel(level) = "invalid"
       THEN /\ logExit' = TRUE
            /\ buffers' =
                 IF Level(logLevel["MainLogger"]) >= Level("fatal")
                 THEN [buffers EXCEPT ![logOut["MainLogger"]] =
                          Append(@, Format(Tag("MainLogger"), "fatal",
                                           NotAValidLevel(level)))]
                 ELSE buffers
            /\ UNCHANGED logLevel
       ELSE /\ logLevel' = [logLevel EXCEPT ![l] = ParseLevel(level)]
            /\ UNCHANGED <<buffers, logExit>>
    /\ UNCHANGED <<engineVars, pollVars, untilVars, klVars, logOut, logCalls>>

\* l.Info(message), and Info(message) of the package for MainLogger:
\* logrus makes the entry when the level of the logger is at least InfoLevel,
\* formats it with the logger's Formatter and writes it to the logger's Out
Info(l, message) ==
    /\ ~logExit
    /\ Len(logCalls) < MaxLogs
    /\ LET wrote == Level(logLevel[l]) >= Level("info")
           call == [logger |-> l, message |-> message, out |-> logOut[l],
                    level |-> logLevel[l],
                    pos |-> IF wrote THEN Len(buffers[logOut[l]]) + 1 ELSE 0]
       IN /\ buffers' =
               IF wrote
               THEN [buffers EXCEPT ![logOut[l]] =
                        Append(@, Format(Tag(l), "info", message))]
               ELSE buffers
          /\ logCalls' = Append(logCalls, call)
    /\ UNCHANGED <<engineVars, pollVars, untilVars, klVars, logOut, logLevel, logExit>>

NextLogger ==
    \/ \E l \in Loggers, w \in Writers : SetOutput(l, w)
    \/ \E l \in Loggers, level \in LevelArgs : SetLevel(l, level)
    \/ \E l \in Loggers : Info(l, testString)

SpecLogger == InitLogger /\ [][NextLogger]_vars

----
\* Package util: Until(f, period, stopCh) in a goroutine of its own

InitUntil ==
    /\ OtherIdle
    /\ LogIdle
    /\ KlIdle
    /\ untilPc = "called"
    /\ stopCh \in {"open", "closed"}
    /\ stopAtCall = (stopCh = "closed")
    /\ timerC = FALSE
    /\ fCalls = 0
    /\ periods = 0
    /\ fPanics = 0
    /\ handled = <<>>
    /\ ReallyCrash \in BOOLEAN
    /\ PanicHandlers \in HandlerLists

\* HandleCrash calling the first panic handler only
HandleCrash_FirstHandler(r) ==
    IF ReallyCrash THEN [recovered |-> FALSE, calls |-> <<>>]
    ELSE IF r # "nil" THEN [recovered |-> TRUE, calls |-> SubSeq(PanicHandlers, 1, 1)]
    ELSE [recovered |-> FALSE, calls |-> <<>>]

\* HandleCrash(), deferred, with r what recover() would give: whether the
\* panic is recovered and the handlers called, in call order
HandleCrash(r) ==
    IF ReallyCrash THEN [recovered |-> FALSE, calls |-> <<>>]
    ELSE IF r # "nil" THEN [recovered |-> TRUE, calls |-> PanicHandlers]
    ELSE [recovered |-> FALSE, calls |-> <<>>]

\* close(stopCh), by the owner of the channel
CloseStopCh ==
    /\ untilPc \in {"called", "f", "select", "returned"}
    /\ stopCh = "open"
    /\ stopCh' = "closed"
    /\ UNCHANGED <<engineVars, pollVars, logVars, klVars, untilPc, stopAtCall, timerC, fCalls,
                   periods, fPanics, handled, ReallyCrash, PanicHandlers>>

\* the first select of Until without its stopCh case
UntilEnter_NoCheck ==
    /\ untilPc = "called"
    /\ untilPc' = "f"
    /\ fCalls' = fCalls + 1
    /\ UNCHANGED <<engineVars, pollVars, logVars, klVars, stopCh, stopAtCall, timerC, periods,
                   fPanics, handled, ReallyCrash, PanicHandlers>>

\* the first select of Until: return when stopCh is closed, else (default)
\* enter the loop and call f
UntilEnter ==
    /\ untilPc = "called"
    /\ IF stopCh = "closed"
       THEN untilPc' = "returned" /\ UNCHANGED fCalls
       ELSE untilPc' = "f" /\ fCalls' = fCalls + 1
    /\ UNCHANGED <<engineVars, pollVars, logVars, klVars, stopCh, stopAtCall, timerC, periods,
                   fPanics, handled, ReallyCrash, PanicHandlers>>

\* f returns: HandleCrash has nothing to recover, and the select of the loop
\* starts with a new time.After(period)
FReturn ==
    /\ untilPc = "f"
    /\ untilPc' = "select"
    /\ timerC' = FALSE
    /\ handled' = handled \o HandleCrash("nil").calls
    /\ UNCHANGED <<engineVars, pollVars, logVars, klVars, stopCh, stopAtCall, fCalls, periods,
                   fPanics, ReallyCrash, PanicHandlers>>

\* f panics: HandleCrash either recovers, calls the handlers and lets the
\* loop go on to its select, or leaves the panic to end the process
FPanic ==
    /\ untilPc = "f"
    /\ fPanics' = fPanics + 1
    /\ handled' = handled \o HandleCrash("panic").calls
    /\ untilPc' = IF HandleCrash("panic").recovered THEN "select" ELSE "crashed"
    /\ timerC' = FALSE
    /\ UNCHANGED <<engineVars, pollVars, logVars, klVars, stopCh, stopAtCall, fCalls, periods,
                   ReallyCrash, PanicHandlers>>

\* the period has passed: the channel of time.After has its value
TimerFire ==
    /\ untilPc = "select"
    /\ ~timerC
    /\ timerC' = TRUE
    /\ UNCHANGED <<engineVars, pollVars, logVars, klVars, untilPc, stopCh, stopAtCall, fCalls,
                   periods, fPanics, handled, ReallyCrash, PanicHandlers>>

\* a `case <-stopCh` that goes round the loop
SelectStop_Continue ==
    /\ untilPc = "select"
    /\ stopCh = "closed"
    /\ fCalls < MaxCalls
    /\ untilPc' = "f"
    /\ fCalls' = fCalls + 1
    /\ UNCHANGED <<engineVars, pollVars, logVars, klVars, stopCh, stopAtCall, timerC, periods,
                   fPanics, handled, ReallyCrash, PanicHandlers>>

\* case <-stopCh: return
SelectStop ==
    /\ untilPc = "select"
    /\ stopCh = "closed"
    /\ untilPc' = "returned"
    /\ UNCHANGED <<engineVars, pollVars, logVars, klVars, stopCh, stopAtCall, timerC, fCalls,
                   periods, fPanics, handled, ReallyCrash, PanicHandlers>>

\* case <-time.After(period): round the loop, f is called again
SelectTimer ==
    /\ untilPc = "select"
    /\ timerC
    /\ fCalls < MaxCalls
    /\ untilPc' = "f"
    /\ fCalls' = fCalls + 1
    /\ periods' = periods + 1
    /\ timerC' = FALSE
    /\ UNCHANGED <<engineVars, pollVars, logVars, klVars, stopCh, stopAtCall, fPanics,
                   handled, ReallyCrash, PanicHandlers>>

NextUntil ==
    \/ CloseStopCh
    \/ UntilEnter
    \/ FReturn
    \/ FPanic
    \/ TimerFire
    \/ SelectStop
    \/ SelectTimer

SpecUntil == InitUntil /\ [][NextUntil]_vars

\* The goroutine of Until is scheduled and f comes to an end; the select
\* of Go picks at random among the cases that are ready, so the stopCh case,
\* ready every time the select is reached, is not passed over for ever
FairUntil ==
    /\ WF_vars(UntilEnter)
    /\ WF_vars(FReturn \/ FPanic)
    /\ SF_vars(SelectStop)

FairSpecUntil == SpecUntil /\ FairUntil

----
\* Package resource: Run with resource "services", and the handlers the
\* informer of the client library calls for its notifications

\* what a handler is given: a *kapi.Service, or an object of another type
\* (the DeletedFinalStateUnknown of the store)
Objects == {"service", "tombstone"}
IsService(obj) == obj = "service"

\* newWriter: os.OpenFile(filename, O_APPEND|O_WRONLY), which does not
\* create the file
CanOpen(filename) == filename = <<"/", "d", "e", "v", "/", "s", "t", "d", "o", "u", "t">>

InitKl ==
    /\ OtherIdle
    /\ LogIdle
    /\ UntilIdle
    /\ klConfig \in [Kinds -> EventsFiles]
    /\ klPc = "init"
    /\ klWriters = [k \in Kinds |-> "nil"]
    /\ klOut = [k \in Kinds |-> <<>>]
    /\ klNotes = 0
    /\ klPanics = 0

\* Run, from the opening of the events files to watchServices: an empty
\* option leaves the writer nil with a warning, a file that cannot be opened
\* is glog.Fatalf
RunOpen ==
    /\ klPc = "init"
    /\ IF \E k \in Kinds : klConfig[k] # <<>> /\ ~CanOpen(klConfig[k])
       THEN klPc' = "exited" /\ UNCHANGED klWriters
       ELSE /\ klPc' = "watching"
            /\ klWriters' = [k \in Kinds |-> IF klConfig[k] = <<>> THEN "nil" ELSE "file"]
    /\ UNCHANGED <<engineVars, pollVars, logVars, untilVars, klConfig, klOut, klNotes, klPanics>>

\* marshalAndPrint(writer, obj) for the writer of kind k: json.Marshal, then
\* fmt.Fprintln(writer, ...), which calls writer.Write: a nil writer is a nil
\* dereference, a panic in the goroutine of the informer's controller.  The
\* controller belongs to the client library: it recovers from the panic
\* (recovered) or lets it end the process, by its own crash policy.
marshalAndPrint(k, data) ==
    IF klWriters[k] = "nil"
    THEN \E recovered \in BOOLEAN :
           /\ klPc' = IF recovered THEN "watching" ELSE "panicked"
           /\ klPanics' = IF recovered THEN klPanics + 1 ELSE klPanics
           /\ UNCHANGED klOut
    ELSE /\ klOut' = [klOut EXCEPT ![k] = Append(@, data)]
         /\ UNCHANGED <<klPc, klPanics>>

\* handleServiceAdd(obj)
handleServiceAdd(obj) ==
    /\ klPc = "watching"
    /\ klNotes < MaxNotes
    /\ klNotes' = klNotes + 1
    /\ IF IsService(obj)
       THEN marshalAndPrint("add", obj)
       ELSE UNCHANGED <<klPc, klOut, klPanics>>
    /\ UNCHANGED <<engineVars, pollVars, logVars, untilVars, klConfig, klWriters>>

\* handleServiceUpdate(oldObj, newObj)
handleServiceUpdate(oldObj, newObj) ==
    /\ klPc = "watching"
    /\ klNotes < MaxNotes
    /\ klNotes' = klNotes + 1
    /\ IF IsService(oldObj) /\ IsService(newObj)
       THEN marshalAndPrint("update", [old |-> oldObj, new |-> newObj])
       ELSE IF IsService(oldObj) THEN marshalAndPrint("delete", oldObj)
       ELSE IF IsService(newObj) THEN marshalAndPrint("add", newObj)
       ELSE UNCHANGED <<klPc, klOut, klPanics>>
    /\ UNCHANGED <<engineVars, pollVars, logVars, untilVars, klConfig, klWriters>>

\* handleServiceDelete(obj)
handleServiceDelete(obj) ==
    /\ klPc = "watching"
    /\ klNotes < MaxNotes
    /\ klNotes' = klNotes + 1
    /\ IF IsService(obj)
       THEN marshalAndPrint("delete", obj)
       ELSE UNCHANGED <<klPc, klOut, klPanics>>
    /\ UNCHANGED <<engineVars, pollVars, logVars, untilVars, klConfig, klWriters>>

NextKl ==
    \/ RunOpen
    \/ \E obj \in Objects : handleServiceAdd(obj)
    \/ \E oldObj \in Objects, newObj \in Objects : handleServiceUpdate(oldObj, newObj)
    \/ \E obj \in Objects : handleServiceDelete(obj)

SpecKl == InitKl /\ [][NextKl]_vars

----
\* C1: pushing to the Funnel never blocks: an event produced while the Funnel
\* holds FunnelCap undelivered events is dropped and its producer goes on; no
\* producer task is ever parked on a send to funnelChan (and what the buffer
\* holds never exceeds its capacity).
C1_PushNeverBlocks ==
    /\ watchPc # "parkedFunnel"
    /\ listPc # "parkedFunnel"
    /\ sendqF = <<>>

\* C2: once the stop signal has fired while the Lister is in Resync-Wait, the
\* Lister goes to its terminal state: after its select has taken the stop case
\* it issues no further GET and pushes no further collection.
C2_StopEndsLister == listSawStop => listPc = "done"

\* C3: once the stop signal is closed the Watcher starts no new frame read, its
\* task terminates and it emits no diagnostic because of the stop: after its
\* select has taken the stop case the task has returned without a diagnostic.
C3_StopEndsWatcher == watchSawStop => (watchPc = "done" /\ watchDiags = 0)

\* C4: after the stop signal is closed, and with every pending I/O operation
\* completing, the Lister, the Watcher and the drain task all eventually return
\* and Informer.Run then closes the completion signal.
C4_StopLeadsToCompletion ==
    (stop = "closed") ~> (wg = 0 /\ runPc = "returned" /\ done = "closed")

\* C5: in every state in which the completion signal is closed, the Lister,
\* the Watcher and the drain task have all returned.
C5_DoneOnlyAfterTasks ==
    done = "closed" => (watchPc = "done" /\ listPc = "done" /\ wg = 0)

\* C6: whatever the interleaving of OS termination signals with the engine's
\* own termination, doneChan is closed exactly once: no close of the closed
\* channel (a panic) is reachable.
C6_DoneClosedOnce == proc # "panicked"

\* C7: an engine started with an already closed stop signal is tolerated: the
\* Lister issues at most one list request, and neither task goes round its
\* loop again after its select has taken the stop case.
C7_ClosedStopTolerated ==
    stopAtStart =>
        /\ listGets <= 1
        /\ listSawStop => listPc = "done"
        /\ watchSawStop => watchPc = "done"

\* C8: Watcher-sourced events keep their order: of any two Change
\* Notifications handed to the processing function, the one decoded earlier
\* from the watch stream is handed over first, whatever snapshots lie between.
C8_WatchOrderKept ==
    \A i, j \in 1..Len(delivered) :
        (i < j /\ delivered[i].src = "watch" /\ delivered[j].src = "watch")
            => delivered[i].n < delivered[j].n

\* two Change Notifications have been delivered with a snapshot between them
C8_Witness ==
    \E i, k, j \in 1..Len(delivered) :
        /\ i < k /\ k < j
        /\ delivered[i].src = "watch"
        /\ delivered[k].src = "list"
        /\ delivered[j].src = "watch"

\* C9: while every list request succeeds and stop has not fired, the Lister
\* emits one collection per resync period: every GET but the first follows
\* its own expiry of the resync timer, and every answered GET has put exactly
\* one collection into the Funnel.
C9_OneCollectionPerResync ==
    (stop = "open" /\ ~listFailed) =>
        /\ listPc \in {"idle", "request"} =>
              (listGets = expiries /\ listPushes = listGets)
        /\ listPc \in {"inflight", "parkedFunnel"} =>
              (listGets = expiries + 1 /\ listPushes = listGets - 1)
        /\ listPc = "select" =>
              (listGets = expiries + 1 /\ listPushes = listGets)

\* the Lister waits for its third resync after two expiries, stop still open
C9_Witness ==
    /\ stop = "open"
    /\ ~listFailed
    /\ listPc = "select"
    /\ expiries = 2
    /\ listPushes = 3

\* C10: when a list request fails the Lister emits exactly one diagnostic,
\* pushes no collection for that request and never issues another request.
C10_ListFailStop ==
    listFailed =>
        /\ listPc = "done"
        /\ listDiags = 1
        /\ listPushes = listGets - 1

\* the second list request has failed after the first one succeeded
C10_Witness ==
    /\ listFailed
    /\ listGets = 2
    /\ listPushes = 1
    /\ \E k \in 1..Len(errChan) : errChan[k].src = "list" /\ errChan[k].kind = "status"

\* number of Change Notifications in a sequence of events
WatchCount(q) == Cardinality({i \in 1..Len(q) : q[i].src = "watch"})

\* C11: if the watch connection cannot be opened, the Watcher emits exactly one
\* diagnostic and terminates without pushing any event, and the Lister is
\* unaffected: the failure neither ends the process nor closes the completion
\* signal, and the Lister's collections keep following its resync timer.
C11_DialFailureIsolated ==
    watchFail = "dial" =>
        /\ watchPc = "done"
        /\ watchDiags = 1
        /\ frames = 0
        /\ WatchCount(funnel) = 0 /\ WatchCount(delivered) = 0
        /\ signals = 0 => (proc = "running" /\ done = "open")
        /\ C9_OneCollectionPerResync

\* the dial has failed and the Lister has since emitted three collections,
\* two of them after an expiry of its resync timer
C11_Witness ==
    /\ watchFail = "dial"
    /\ expiries = 2
    /\ listPushes = 3
    /\ Len(delivered) = 3

\* C12: in the Streaming state a frame read or decode error or a stream close
\* makes the Watcher emit one diagnostic and terminate; from then on it pushes
\* no further Change Notification and does not dial again.
C12_StreamFailureEndsWatcher ==
    watchFail = "receive" =>
        /\ watchPc = "done"
        /\ watchDiags = 1
        /\ WatchCount(funnel) + WatchCount(delivered) = frames

\* the stream has failed after two frames, both already delivered
C12_Witness ==
    /\ watchFail = "receive"
    /\ frames = 2
    /\ WatchCount(delivered) = 2

\* C13: a Change Notification that is in the Funnel is delivered to the
\* processing function whatever the Lister does, in particular while the
\* Lister stays in Resync-Wait and its timer never fires.
C13_DeliveryIgnoresLister ==
    \A n \in 1..MaxFrames :
        (\E i \in 1..Len(funnel) : funnel[i] = WatchEvent(n))
            ~> (\E i \in 1..Len(delivered) : delivered[i] = WatchEvent(n))

\* a Change Notification pushed while the Lister waited for its first
\* resync has been delivered, the timer not having fired
C13_Witness ==
    /\ listPc = "select"
    /\ expiries = 0
    /\ delivered = <<ListSnapshot(1), WatchEvent(1)>>

----
\* C14: constructing an engine for a resource kind that is no key of the codec
\* registry fails at construction: no Lister, Watcher or drain task is started
\* for it and the unknown kind never surfaces as a run-time failure of the
\* process.
C14_UnknownKindFailsAtConstruction ==
    ~NewInformerOk =>
        /\ proc = "running"
        /\ runPc = "init" /\ watchPc = "idle" /\ listPc = "idle" /\ drainPc = "idle"

\* C15: emitting a diagnostic on the error signal never blocks its producer:
\* no Lister or Watcher is ever parked on a send to errChan.
C15_ErrSendNeverBlocks == sendqE = <<>> /\ watchPc # "parkedErr" /\ listPc # "parkedErr"

\* C16: no engine is ever run with a resync interval that is not greater than
\* zero, so the Lister never takes a resync expiry of a non-positive interval.
C16_NonPositiveIntervalRejected ==
    (runPc # "init" \/ expiries > 0) => resyncInterval > 0

----
\* C17: NewClient is all-or-nothing for every combination of master URL,
\* credential kind and CA bytes: it returns a client and no error or an error
\* and no client, and fails in no other way.
C17_AllOrNothing ==
    kubeClient # NotCalled =>
        \/ kubeClient.kind = "client" /\ kubeClient.err = "nil"
        \/ kubeClient.kind = "error" /\ kubeClient.err # "nil" /\ kubeClient.baseURL = <<>>

\* what the claims about NewClient speak of
RawScheme == GetScheme(MasterURL(kubeConfig)).scheme
KnownAuth == {"ClientCertificateAuth", "TokenAuth", "UsernameAndPasswordAuth"}
HeaderAuth == {"TokenAuth", "UsernameAndPasswordAuth"}
\* the spellings of word in lower-case and upper-case letters
Spellings(word) ==
    {w \in [1..Len(word) -> {LowerLetters[k] : k \in 1..26} \cup {UpperLetters[k] : k \in 1..26}] :
        \A i \in 1..Len(word) :
            \E k \in 1..26 : word[i] = LowerLetters[k] /\ w[i] \in {LowerLetters[k], UpperLetters[k]}}
IsHttp == RawScheme \in Spellings(Http)
IsHttps == RawScheme \in Spellings(Https)

\* C18 as stated: NewClient returns an error, and no client, whenever the CA
\* certificate bytes fail to parse, whenever a client-certificate credential
\* is paired with an http URL, and whenever the credential kind is not one of
\* the three recognised kinds.
C18_BadInputsAreErrors ==
    (/\ kubeClient # NotCalled
     /\ \/ kubeConfig.CaCertificate = "bad"
        \/ kubeConfig.Auth.type = "ClientCertificateAuth" /\ IsHttp
        \/ kubeConfig.Auth.type \notin KnownAuth)
    => kubeClient.kind = "error"

\* C18, amended: NewClient returns an error, and no client, whenever the URL
\* is https and the CA certificate bytes fail to parse, whenever a
\* client-certificate credential is paired with an http URL, and whenever the
\* credential kind is not one of the three recognised kinds; with an http URL
\* the CA bytes are not parsed, and a token or username/password credential
\* gets its client, without TLS, whatever the CA bytes are.
C18_BadInputsAreErrorsWhenUsed ==
    kubeClient # NotCalled =>
        /\ (\/ kubeConfig.CaCertificate = "bad" /\ IsHttps
            \/ kubeConfig.Auth.type = "ClientCertificateAuth" /\ IsHttp
            \/ kubeConfig.Auth.type \notin KnownAuth)
           => kubeClient.kind = "error"
        /\ (IsHttp /\ kubeConfig.Auth.type \in HeaderAuth)
           => (kubeClient.kind = "client" /\ kubeClient.tls = "nil")

C18_Witness ==
    /\ kubeClient.kind = "error"
    /\ kubeClient.err = "unable to load CA certificate"
    /\ kubeConfig.CaCertificate = "bad"
    /\ kubeConfig.Auth.type = "TokenAuth"

\* C19 as stated: NewClient accepts a master URL only if its scheme is exactly
\* http or https; any other scheme, or a missing scheme, yields an error and
\* no client.
C19_SchemeExactlyHttpOrHttps ==
    kubeClient # NotCalled =>
        /\ kubeClient.kind = "client" => RawScheme \in {Http, Https}
        /\ RawScheme \notin {Http, Https} => kubeClient.kind = "error"

\* C19, amended: NewClient accepts a master URL only if its scheme, letter
\* case ignored, is http or https, and any other scheme, or a missing scheme,
\* yields an error and no client; a scheme written in upper-case letters is
\* accepted like its lower-case spelling.
C19_SchemeHttpOrHttpsAnyCase ==
    kubeClient # NotCalled =>
        /\ kubeClient.kind = "client" => (IsHttp \/ IsHttps)
        /\ ~(IsHttp \/ IsHttps) => kubeClient.kind = "error"
        /\ (kubeConfig.MasterURL # <<>> /\ (IsHttp \/ IsHttps)
                /\ kubeConfig.Auth.type \in HeaderAuth /\ kubeConfig.CaCertificate # "bad")
           => kubeClient.kind = "client"

C19_Witness ==
    /\ kubeClient.kind = "client"
    /\ RawScheme = <<"H", "T", "T", "P", "S">>
    /\ kubeClient.tls = "RootCAs"

\* C20: when the master URL is empty NewClient derives it from
\* KUBERNETES_SERVICE_HOST and KUBERNETES_SERVICE_PORT, and returns an error
\* and no client if either is empty; when the master URL is not empty the
\* result does not depend on the two variables.
C20_DiscoveryOnlyWhenEmpty ==
    kubeClient # NotCalled =>
        /\ (kubeConfig.MasterURL = <<>> /\ (kubeConfig.envHost = <<>> \/ kubeConfig.envPort = <<>>))
           => (kubeClient.kind = "error" /\ kubeClient.baseURL = <<>>)
        /\ (kubeConfig.MasterURL = <<>> /\ kubeClient.kind = "client")
           => /\ kubeClient.baseURL = kubeConfig.envHost \o <<":">> \o kubeConfig.envPort \o ApiV1
              /\ kubeConfig.CaCertificate # "nil" => kubeClient.tls # "nil"
        /\ (kubeConfig.MasterURL = <<>> /\ kubeConfig.envHost # <<>> /\ kubeConfig.envPort # <<>>
                /\ kubeConfig.Auth.type \in HeaderAuth /\ kubeConfig.CaCertificate # "bad")
           => kubeClient.kind = "client"
        /\ kubeConfig.MasterURL # <<>>
           => \A h \in EnvHosts, p \in EnvPorts :
                 kubeClient = NewClient([kubeConfig EXCEPT !.envHost = h, !.envPort = p])

C20_Witness ==
    /\ kubeConfig.MasterURL = <<>>
    /\ kubeClient.kind = "client"
    /\ kubeClient.baseURL = <<"k", ":", "4", "4", "3", "/", "a", "p", "i", "/", "v", "1">>
    /\ kubeConfig.Auth.type = "UsernameAndPasswordAuth"

----
\* C21: for a username/password credential the Authorization header built by
\* NewClient is "Basic " followed by the base64 encoding of exactly
\* "<username>:<password>".
C21_BasicHeader ==
    (kubeClient.kind = "client" /\ kubeConfig.Auth.type = "UsernameAndPasswordAuth")
    => kubeClient.headers =
         Basic \o EncodeToString(kubeConfig.Auth.user \o <<":">> \o kubeConfig.Auth.pass)

\* what the claims about the informer's requests speak of
MasterHost == UrlParse(MasterURL(kubeConfig)).Host
EffectiveNamespace ==
    IF informerConfig.Namespace # <<>> THEN informerConfig.Namespace
    ELSE IF informerConfig.podNamespace # <<>> THEN informerConfig.podNamespace
    ELSE DefaultNamespace
RequestPath(watch) ==
    SchemeSep \o MasterHost \o ApiV1 \o <<"/">> \o (IF watch THEN WatchPrefix ELSE <<>>)
        \o NamespacesSegment \o EffectiveNamespace \o <<"/">> \o Chars(resource)
\* sub is a run of consecutive characters of str
Contains(str, sub) ==
    \E i \in 0..(Len(str) - Len(sub)) : SubSeq(str, i + 1, i + Len(sub)) = sub

\* C22: the list request and the watch connection of one informer target the
\* same host, namespace and resource and differ only by the watch path
\* segment, and their scheme is the TLS or non-TLS scheme of the master URL:
\* https and wss for an https master URL, http and ws for an http one.
C22_RequestsFollowMasterURL ==
    informer.kind = "informer" =>
        /\ informer.httpURL = (IF IsHttps THEN Https ELSE Http) \o RequestPath(FALSE)
        /\ informer.wsURL = (IF IsHttps THEN <<"w", "s", "s">> ELSE <<"w", "s">>) \o RequestPath(TRUE)

\* C23: when a non-empty selector is configured the list and watch requests
\* of the informer carry that selector.
C23_RequestsCarrySelector ==
    (informer.kind = "informer" /\ informerConfig.Selector # <<>>) =>
        /\ Contains(informer.httpURL, informerConfig.Selector)
        /\ Contains(informer.wsURL, informerConfig.Selector)

----
\* C24: NewEvent maps the watch event types Added, Modified and Deleted to the
\* type codes 0, 1 and 2 and carries the object unchanged; no event written to
\* the output has a type code outside {0, 1, 2}.
C24_EventCodes ==
    /\ Len(stdout) = Len(outHist)
    /\ \A i \in 1..Len(stdout) :
        /\ stdout[i].Type \in {0, 1, 2}
        /\ outHist[i].of = "ADDED" => stdout[i].Type = 0
        /\ outHist[i].of = "MODIFIED" => stdout[i].Type = 1
        /\ outHist[i].of = "DELETED" => stdout[i].Type = 2
        /\ stdout[i].Object = outHist[i].object

C24_Witness ==
    /\ \E i \in 1..Len(stdout) : stdout[i].Type = 0 /\ outHist[i].src = "list"
    /\ \E i \in 1..Len(stdout) : stdout[i].Type = 1
    /\ \E i \in 1..Len(stdout) : stdout[i].Type = 2 /\ outHist[i].src = "watch"
    /\ \E i \in 1..Len(recvHist) : recvHist[i].Type = "ERROR"

\* C29: whenever mainLoop returns because watching could not be started or
\* the watch channel was closed, Run starts mainLoop again after a pause: a
\* new watch attempt follows, and Run itself never returns.
C29_RunRestartsMainLoop ==
    /\ [](loopPc \in {"run", "select", "sleep", "exited", "panicked"})
    /\ (loopPc = "sleep") ~> (loopPc = "run")
    /\ (loopPc = "run") ~> (loopPc \in {"select", "sleep", "panicked"})

C29_Witness == loopPc = "select" /\ entries = 2 /\ watchSent = 1 /\ Len(stdout) = 1

----
\* the entry a call of Info put into its writer, <<>> when it put none
Written(call) ==
    IF call.pos \in 1..Len(buffers[call.out]) THEN buffers[call.out][call.pos] ELSE <<>>

\* C25 as stated: after a logger's output is set to a writer, every message
\* logged with Info is written to that writer and the written entry contains
\* the message text, for MainLogger and for a logger of NewLogger alike.
C25_EveryInfoIsWritten ==
    \A i \in 1..Len(logCalls) :
        /\ logCalls[i].pos > 0
        /\ Contains(Written(logCalls[i]), logCalls[i].message)

\* C25, amended: a message logged with Info is written to the logger's
\* current writer, in an entry that contains the message text, exactly when
\* the logger's level is info or debug; at the levels below info nothing is
\* written.
C25_InfoWrittenAtInfoLevel ==
    /\ \A i \in 1..Len(logCalls) :
        LET call == logCalls[i]
        IN IF call.level \in {"info", "debug"}
           THEN /\ call.pos \in 1..Len(buffers[call.out])
                /\ Contains(Written(call), call.message)
           ELSE call.pos = 0
    /\ ~logExit =>
         Len(buffers["stderr"]) + Len(buffers["buffer"])
           = Cardinality({i \in 1..Len(logCalls) : logCalls[i].pos > 0})

C25_Witness ==
    /\ \E i \in 1..Len(logCalls) :
        /\ logCalls[i].logger = "MainLogger"
        /\ logCalls[i].out = "buffer"
        /\ Contains(Written(logCalls[i]), testString)
    /\ \E i \in 1..Len(logCalls) :
        /\ logCalls[i].logger = "l"
        /\ logCalls[i].out = "buffer"
        /\ Contains(Written(logCalls[i]), testString)

----
\* C26: Until returns at once without ever invoking f when the stop channel
\* is already closed at the time of the call.
C26_ClosedStopNoCall ==
    stopAtCall => /\ fCalls = 0
                  /\ untilPc \in {"called", "returned"}
                  /\ handled = <<>>

C26_Witness == stopAtCall /\ untilPc = "returned" /\ fCalls = 0

C28_PanicIsHandled ==
    /\ ~ReallyCrash =>
         /\ untilPc # "crashed"
         /\ untilPc = "returned" => stopCh = "closed"
         /\ Len(handled) = fPanics * Len(PanicHandlers)
         /\ \A i \in 1..Len(handled) :
              handled[i] = PanicHandlers[((i - 1) % Len(PanicHandlers)) + 1]
    /\ ReallyCrash =>
         /\ handled = <<>>
         /\ fPanics > 0 <=> untilPc = "crashed"
    /\ fCalls > 0 => fCalls = periods + 1

C28_Witness ==
    /\ ~ReallyCrash
    /\ Len(PanicHandlers) = 2
    /\ fPanics = 1
    /\ fCalls = 2
    /\ untilPc = "f"
    /\ handled = PanicHandlers

----
\* C30: when an events file option is empty, events of that type are
\* ignored: a later add, update or delete notification of that type produces
\* no output and no failure of the process.
C30_EmptyFileIgnores ==
    (\E k \in Kinds : klConfig[k] = <<>>) =>
        /\ \A k \in Kinds : klConfig[k] = <<>> => klOut[k] = <<>>
        /\ klPc # "panicked"
        /\ klPanics = 0

----
\* C35: over the whole life of one informer the Lister and the Watcher each
\* put at most one diagnostic on the error channel, so at most two are ever
\* sent, and an error channel of capacity two or more never blocks a sender.
C35_AtMostTwoDiagnostics ==
    /\ listDiags <= 1
    /\ watchDiags <= 1
    /\ Len(errChan) + Len(sendqE) <= listDiags + watchDiags
    /\ errCap >= 2 => /\ sendqE = <<>>
                      /\ watchPc # "parkedErr"
                      /\ listPc # "parkedErr"

C35_Witness ==
    /\ errCap >= 2
    /\ listDiags = 1
    /\ watchDiags = 1
    /\ Len(errChan) = 2
    /\ watchPc = "done"
    /\ listPc = "done"

----
\* both requests of the informer are for the resource in namespace ns
InNamespace(ns) ==
    LET tail == NamespacesSegment \o ns \o <<"/">> \o Chars(resource)
        EndsWith(str) ==
            /\ Len(str) >= Len(tail)
            /\ SubSeq(str, Len(str) - Len(tail) + 1, Len(str)) = tail
    IN EndsWith(informer.httpURL) /\ EndsWith(informer.wsURL)

\* C36: given an empty namespace NewInformer uses the POD_NAMESPACE
\* environment value, and 'default' when that is empty too; a non-empty
\* configured namespace is always used as given.  When no processor function
\* is configured NewInformer returns an error and no informer.
C36_NamespaceFallback ==
    /\ informer.kind = "informer" =>
         /\ informerConfig.Processor
         /\ informerConfig.Namespace # <<>> => InNamespace(informerConfig.Namespace)
         /\ (informerConfig.Namespace = <<>> /\ informerConfig.podNamespace # <<>>)
              => InNamespace(informerConfig.podNamespace)
         /\ (informerConfig.Namespace = <<>> /\ informerConfig.podNamespace = <<>>)
              => InNamespace(<<"d", "e", "f", "a", "u", "l", "t">>)
    /\ (informer # NotBuilt /\ ~informerConfig.Processor) =>
         /\ informer.kind = "error"
         /\ informer.httpURL = <<>>
         /\ informer.wsURL = <<>>

C36_Witness ==
    /\ informer.kind = "informer"
    /\ informerConfig.Namespace = <<>>
    /\ informerConfig.podNamespace = <<"p", "o", "d">>
    /\ InNamespace(<<"p", "o", "d">>)

----
\* the Events written by the list of type eventType in mainLoop entry e
ListWritten(eventType, e) ==
    {i \in 1..Len(outHist) :
        outHist[i].src = "list" /\ outHist[i].of = eventType /\ outHist[i].entry = e}

\* C31, for list calls that succeed: each entry into mainLoop with a
\* successfully created watch emits the full resource list as Added events
\* exactly once (at most once, and once by the time its one-time case is
\* taken or the entry is over), each later ticker expiry emits the full list
\* as Modified events, and no list is fetched when the watch could not be
\* created.
C31_ListOncePerEntry ==
    /\ entries = 0 => stdout = <<>>
    /\ \A e \in 1..entries :
        /\ Cardinality(ListWritten("ADDED", e)) <= Len(ResourceList)
        /\ Cardinality(ListWritten("MODIFIED", e)) <= ticks * Len(ResourceList)
        /\ (failedLists = 0 /\ (e < entries \/ onetimeCh = 0 \/ loopPc # "select"))
             => Cardinality(ListWritten("ADDED", e)) = Len(ResourceList)

\* C32: in mainLoop the initial full list (the Added events triggered by the
\* one-time channel) is written before any watch-sourced event of the same
\* mainLoop entry.
C32_InitialListFirst ==
    \A i \in 1..Len(outHist), j \in 1..Len(outHist) :
        (/\ outHist[i].src = "watch"
         /\ outHist[j].src = "list"
         /\ outHist[j].of = "ADDED"
         /\ outHist[i].entry = outHist[j].entry) => j < i

\* C33: a failed list call inside mainLoop emits no event and leaves the
\* loop running: the loop stays in its select, the watch and the event it is
\* sending, the one-time channel's and the ticker's later values are as they
\* were, so later ticks call the list again and watch events go on being
\* written.
C33_FailedListLeavesLoopRunning ==
    [][failedLists' # failedLists =>
         /\ failedLists' = failedLists + 1
         /\ stdout' = stdout
         /\ loopPc = "select" /\ loopPc' = "select"
         /\ watcher' = watcher
         /\ kubeCh' = kubeCh
         /\ onetimeCh' + tickerC' + 1 = onetimeCh + tickerC]_vars

C33_Witness ==
    /\ failedLists = 1
    /\ entries = 1
    /\ loopPc = "select"
    /\ watcher = "open"
    /\ onetimeCh = 0
    /\ ListWritten("ADDED", 1) = {}
    /\ Cardinality(ListWritten("MODIFIED", 1)) = Len(ResourceList)
    /\ \E i \in 1..Len(outHist) : outHist[i].src = "watch"

\* C34: a watch event of type Error is never written to the output as an
\* event: receiving one ends the process, while every other received watch
\* event is written exactly once, in the order received.
C34_ErrorEndsProcess ==
    LET IsWatch(h) == h.src = "watch"
        NotError(ev) == ev.Type # "ERROR"
        written == SelectSeq(outHist, IsWatch)
        received == SelectSeq(recvHist, NotError)
    IN /\ Len(written) = Len(received)
       /\ \A i \in 1..Len(written) :
            /\ written[i].of = received[i].Type
            /\ written[i].object = received[i].Object
       /\ \A i \in 1..Len(outHist) : outHist[i].of # "ERROR"
       /\ \A i \in 1..Len(recvHist) :
            recvHist[i].Type = "ERROR" => (i = Len(recvHist) /\ loopPc = "exited")
       /\ loopPc = "exited" =>
            (recvHist # <<>> /\ recvHist[Len(recvHist)].Type = "ERROR")

C34_Witness ==
    /\ loopPc = "exited"
    /\ Len(recvHist) = 2
    /\ recvHist[1].Type = "DELETED"
    /\ \E i \in 1..Len(outHist) : outHist[i].src = "watch" /\ outHist[i].of = "DELETED"

====
